---------------------------- MODULE Spec2Model ----------------------------
(***************************************************************************)
(* Channel Event Logging engine (main/cel.c): the linked-id tracker, the   *)
(* dial-status store, the configuration filter, the backend registry and   *)
(* the message handlers that turn upstream messages into CEL events.       *)
(*                                                                         *)
(* Every handler is one atomic action (the router dispatches one message   *)
(* at a time on its subscription).  Allocation failures are not modelled.  *)
(***************************************************************************)
EXTENDS Integers, Sequences, FiniteSets, TLC

VARIABLES
    channels,             \* upstream channel cache: uniqueid -> last published snapshot or NULL
    nupd,                 \* per uniqueid: number of cache updates published so far
    linkedids,            \* the linkedids container: linkedid -> ao2 reference count
    cel_dialstatus_store, \* the dial-status container, in bucket (insertion) order
    cel_backends,         \* the backend container, in insertion order
    cel_configs,          \* the global configuration object
    out,                  \* events built (ast_cel_create_event) by the last handler
    calls,                \* backend callbacks invoked by the last handler
    last,                 \* the message the last handler was given
    chanlog,              \* per uniqueid: channel-diff event types reported so far
    dialed,               \* per uniqueid: dialstatus of the latest dial message awaiting its hangup
    hist,                 \* when on: the messages handled and the events delivered since Init
    engine,               \* "running", "released" (configuration released) or "terminated"
    threads               \* invocations executed statement by statement: thread -> frame

vars == <<channels, nupd, linkedids, cel_dialstatus_store, cel_backends,
          cel_configs, out, calls, last, chanlog, dialed, hist, engine, threads>>

-----------------------------------------------------------------------------
(* Bounds of the model *)

\* cache updates that change a live channel, per channel
MaxUpdates == 2
\* dial blobs kept in the dial-status store
MaxDial == 3
\* entries in the backend container
MaxBackends == 3

-----------------------------------------------------------------------------
(* Event type codes *)

AST_CEL_CHANNEL_START == 1
AST_CEL_CHANNEL_END == 2
AST_CEL_ANSWER == 3
AST_CEL_HANGUP == 4
AST_CEL_APP_START == 5
AST_CEL_APP_END == 6
AST_CEL_PARK_START == 7
AST_CEL_PARK_END == 8
AST_CEL_USER_DEFINED == 9
AST_CEL_BRIDGE_ENTER == 10
AST_CEL_BRIDGE_EXIT == 11
AST_CEL_BLINDTRANSFER == 12
AST_CEL_ATTENDEDTRANSFER == 13
AST_CEL_PICKUP == 14
AST_CEL_FORWARD == 15
AST_CEL_LINKEDID_END == 16
AST_CEL_LOCAL_OPTIMIZE == 17

\* bits of the 64-bit event mask
CEL_MAX_EVENT_IDS == 64
AllBits == 0 .. (CEL_MAX_EVENT_IDS - 1)

-----------------------------------------------------------------------------
(* Values *)

\* a NULL pointer (snapshot, blob, json or config)
NULL == [null |-> TRUE]

Uids == {"1", "2"}
LinkedIds == {"L1", "L2"}
States == {"DOWN", "UP"}
Appls == {"", "Dial", "Queue"}
DialStatuses == {"", "BUSY", "ANSWER"}
Forwards == {"", "fwd"}
BackendNames == {"", "b1", "b2"}
Callbacks == {"cb1", "cb2"}
BridgeIds == {"B1"}

\* ast_channel_snapshot: the fields the engine reads
Snaps(u, lids, states, deads, appls, internals) ==
    [uniqueid : {u}, linkedid : lids, name : {u}, state : states,
     dead : deads, appl : appls, internal : internals,
     hangupcause : {16}, hangupsource : {""}]

Snapshots(u) == Snaps(u, LinkedIds, States, BOOLEAN, Appls, BOOLEAN)

\* ast_str_to_lower
ast_str_to_lower(s) ==
    CASE s = "Dial" -> "dial"
      [] s = "Queue" -> "queue"
      [] OTHER -> s

-----------------------------------------------------------------------------
(* Configuration *)

ast_cel_track_event(cfg, et) ==
    IF cfg = NULL THEN FALSE ELSE et \in cfg.events

\* mutant: the application name is looked up as it is spelled
cel_track_app_no_lower(cfg, const_app) ==
    IF cfg = NULL THEN FALSE ELSE const_app \in cfg.apps

cel_track_app(cfg, const_app) ==
    IF cfg = NULL THEN FALSE ELSE ast_str_to_lower(const_app) \in cfg.apps

\* mutant: only the APP_START bit admits a tracked application
cel_pre_apply_config_start_only(pending) ==
    IF pending.apps = {} THEN 0
    ELSE IF AST_CEL_APP_START \in pending.events THEN 0
    ELSE -1

\* 0 (accept) or -1 (reject) for the pending configuration
cel_pre_apply_config(pending) ==
    IF pending.apps = {} THEN 0
    ELSE IF AST_CEL_APP_START \in pending.events THEN 0
    ELSE IF AST_CEL_APP_END \in pending.events THEN 0
    ELSE -1

\* the configuration in effect after a reload that parsed to `pending`
do_reload(cfg, pending) ==
    IF cel_pre_apply_config(pending) = 0 THEN pending ELSE cfg

\* the names of the event types, by code; the other entries of the array are NULL
cel_event_types ==
    (0 :> "ALL")
    @@ (AST_CEL_CHANNEL_START :> "CHAN_START")
    @@ (AST_CEL_CHANNEL_END :> "CHAN_END")
    @@ (AST_CEL_ANSWER :> "ANSWER")
    @@ (AST_CEL_HANGUP :> "HANGUP")
    @@ (AST_CEL_APP_START :> "APP_START")
    @@ (AST_CEL_APP_END :> "APP_END")
    @@ (AST_CEL_PARK_START :> "PARK_START")
    @@ (AST_CEL_PARK_END :> "PARK_END")
    @@ (AST_CEL_USER_DEFINED :> "USER_DEFINED")
    @@ (AST_CEL_BRIDGE_ENTER :> "BRIDGE_ENTER")
    @@ (AST_CEL_BRIDGE_EXIT :> "BRIDGE_EXIT")
    @@ (AST_CEL_BLINDTRANSFER :> "BLINDTRANSFER")
    @@ (AST_CEL_ATTENDEDTRANSFER :> "ATTENDEDTRANSFER")
    @@ (AST_CEL_PICKUP :> "PICKUP")
    @@ (AST_CEL_FORWARD :> "FORWARD")
    @@ (AST_CEL_LINKEDID_END :> "LINKEDID_END")
    @@ (AST_CEL_LOCAL_OPTIMIZE :> "LOCAL_OPTIMIZE")

\* ast_strip: the field without its leading and trailing white space
ast_strip(s) ==
    CASE s = " APP_END " -> "APP_END"
      [] s = " Dial" -> "Dial"
      [] s = " " -> ""
      [] OTHER -> s

\* the letters of s folded to one case, as strcasecmp compares them
FoldCase(s) ==
    CASE s = "hangup" -> "HANGUP"
      [] s = "all" -> "ALL"
      [] s = "Bogus" -> "BOGUS"
      [] OTHER -> s

\* 0 when the two names are equal but for the case of their letters
strcasecmp(a, b) == IF FoldCase(a) = FoldCase(b) THEN 0 ELSE 1

\* the first index of the array whose name matches, or -1
ast_cel_str_to_event_type(name) ==
    LET hits == {i \in DOMAIN cel_event_types : strcasecmp(name, cel_event_types[i]) = 0}
    IN  IF hits = {} THEN -1
        ELSE CHOOSE i \in hits : \A j \in hits : i <= j

RECURSIVE events_handler_assign(_, _)
\* mutant: a name replaces the mask instead of adding its bit
events_handler_assign(events, fields) ==
    IF fields = <<>> THEN [rc |-> 0, events |-> events]
    ELSE LET cur_event == ast_strip(Head(fields))
             event_type == ast_cel_str_to_event_type(cur_event)
         IN  IF cur_event = "" THEN events_handler_assign(events, Tail(fields))
             ELSE IF event_type = 0 THEN events_handler_assign(AllBits, Tail(fields))
             ELSE IF event_type = -1 THEN [rc |-> -1, events |-> events]
             ELSE events_handler_assign({event_type}, Tail(fields))

RECURSIVE events_handler(_, _)
\* [rc, events]: the mask `events` after the comma-separated fields (strsep)
\* of the option value; rc is -1 at the first unknown name
events_handler(events, fields) ==
    IF fields = <<>> THEN [rc |-> 0, events |-> events]
    ELSE LET cur_event == ast_strip(Head(fields))
             event_type == ast_cel_str_to_event_type(cur_event)
         IN  IF cur_event = "" THEN events_handler(events, Tail(fields))
             ELSE IF event_type = 0 THEN events_handler(AllBits, Tail(fields))
             ELSE IF event_type = -1 THEN [rc |-> -1, events |-> events]
             ELSE events_handler(events \cup {event_type}, Tail(fields))

RECURSIVE apps_handler(_, _)
\* [rc, apps]: the application set after the fields of the option value
apps_handler(apps, fields) ==
    IF fields = <<>> THEN [rc |-> 0, apps |-> apps]
    ELSE LET cur_app == ast_strip(Head(fields))
         IN  IF cur_app = "" THEN apps_handler(apps, Tail(fields))
             ELSE apps_handler(apps \cup {ast_str_to_lower(cur_app)}, Tail(fields))

\* aco_process_config on a [general] section with the three options: a new
\* configuration object is filled by the option handlers, validated by
\* cel_pre_apply_config and then replaces the global object.
\* [rc, pending, cfg]: pending is NULL when an option handler failed
aco_process_config(cfg, enable, events, apps) ==
    LET e == events_handler({}, events)
        a == apps_handler({}, apps)
        pending == [enable |-> enable, events |-> e.events, apps |-> a.apps]
    IN  IF e.rc # 0 \/ a.rc # 0
        THEN [rc |-> -1, pending |-> NULL, cfg |-> cfg]
        ELSE IF cel_pre_apply_config(pending) # 0
        THEN [rc |-> -1, pending |-> pending, cfg |-> cfg]
        ELSE [rc |-> 0, pending |-> pending, cfg |-> pending]

-----------------------------------------------------------------------------
(* Handler state: what one handler invocation reads and writes.            *)
(*   cfg, backends : read;  linkedids, store, out, calls : written         *)

HState(cfg, backends, lids, store) ==
    [cfg |-> cfg, backends |-> backends, linkedids |-> lids, store |-> store,
     out |-> <<>>, calls |-> <<>>]

-----------------------------------------------------------------------------
(* Linked-id tracker *)

\* mutant: the reference ao2_find returned for an entry already there is dropped
cel_linkedid_ref_unref_found(lids, linkedid) ==
    IF linkedid = ""
    THEN [rc |-> -1, linkedids |-> lids]
    ELSE IF linkedid \notin DOMAIN lids
    THEN [rc |-> 0, linkedids |-> lids @@ (linkedid :> 2)]
    ELSE [rc |-> 0, linkedids |-> lids]

\* mutant: an empty linkedid is acquired like any other
cel_linkedid_ref_empty_linked(lids, linkedid) ==
    IF linkedid \notin DOMAIN lids
    THEN [rc |-> 0, linkedids |-> lids @@ (linkedid :> 2)]
    ELSE [rc |-> 0, linkedids |-> [lids EXCEPT ![linkedid] = @ + 1]]

\* [rc, linkedids]: the return code and the container afterwards.  A new
\* entry keeps its allocation reference and the container's link reference;
\* a found entry keeps the reference ao2_find returned.
cel_linkedid_ref(lids, linkedid) ==
    IF linkedid = ""
    THEN [rc |-> -1, linkedids |-> lids]
    ELSE IF linkedid \notin DOMAIN lids
    THEN [rc |-> 0, linkedids |-> lids @@ (linkedid :> 2)]
    ELSE [rc |-> 0, linkedids |-> [lids EXCEPT ![linkedid] = @ + 1]]

\* ast_str_container_remove: unlink the entry (its object dies with the
\* caller's last reference)
ast_str_container_remove(lids, lid) ==
    [l \in (DOMAIN lids) \ {lid} |-> lids[l]]

-----------------------------------------------------------------------------
(* Event records and fan-out *)

\* the event record: type, user event name (S_OR(userdefevname, ""): callers
\* pass "" for a NULL name), snapshot fields, extra
ast_cel_create_event(snapshot, event_type, userdefevname, extra) ==
    [event_type |-> event_type,
     userdefevname |-> userdefevname,
     uniqueid |-> snapshot.uniqueid,
     linkedid |-> snapshot.linkedid,
     name |-> snapshot.name,
     appl |-> snapshot.appl,
     extra |-> extra]

\* ao2_callback(cel_backends, OBJ_MULTIPLE | OBJ_NODATA, cel_backend_send_cb, ev):
\* one callback invocation per entry of the container
cel_backend_send_cb(backends, ev) ==
    [i \in 1 .. Len(backends) |->
        [name |-> backends[i].name, callback |-> backends[i].callback, ev |-> ev]]

\* mutant: the event mask is tested before the linkedid is recorded
cel_report_event_mask_first(st, snapshot, event_type, userdefevname, extra) ==
    IF st.cfg = NULL THEN st
    ELSE IF ~st.cfg.enable THEN st
    ELSE IF ~ast_cel_track_event(st.cfg, event_type) THEN st
    ELSE
      LET ref == IF ast_cel_track_event(st.cfg, AST_CEL_LINKEDID_END)
                    /\ event_type = AST_CEL_CHANNEL_START
                 THEN cel_linkedid_ref(st.linkedids, snapshot.linkedid)
                 ELSE [rc |-> 0, linkedids |-> st.linkedids]
          s1 == [st EXCEPT !.linkedids = ref.linkedids]
      IN  IF ref.rc # 0 THEN s1
          ELSE IF event_type \in {AST_CEL_APP_START, AST_CEL_APP_END}
                  /\ ~cel_track_app(st.cfg, snapshot.appl) THEN s1
          ELSE LET ev == ast_cel_create_event(snapshot, event_type, userdefevname, extra)
               IN  [s1 EXCEPT !.out = Append(@, ev),
                              !.calls = @ \o cel_backend_send_cb(st.backends, ev)]

\* mutant: the enable flag is not tested
cel_report_event_no_enable(st, snapshot, event_type, userdefevname, extra) ==
    IF st.cfg = NULL THEN st
    ELSE
      LET ref == IF ast_cel_track_event(st.cfg, AST_CEL_LINKEDID_END)
                    /\ event_type = AST_CEL_CHANNEL_START
                 THEN cel_linkedid_ref(st.linkedids, snapshot.linkedid)
                 ELSE [rc |-> 0, linkedids |-> st.linkedids]
          s1 == [st EXCEPT !.linkedids = ref.linkedids]
      IN  IF ref.rc # 0 THEN s1
          ELSE IF ~ast_cel_track_event(st.cfg, event_type) THEN s1
          ELSE IF event_type \in {AST_CEL_APP_START, AST_CEL_APP_END}
                  /\ ~cel_track_app(st.cfg, snapshot.appl) THEN s1
          ELSE LET ev == ast_cel_create_event(snapshot, event_type, userdefevname, extra)
               IN  [s1 EXCEPT !.out = Append(@, ev),
                              !.calls = @ \o cel_backend_send_cb(st.backends, ev)]

cel_report_event(st, snapshot, event_type, userdefevname, extra) ==
    IF st.cfg = NULL THEN st
    ELSE IF ~st.cfg.enable THEN st
    ELSE
      LET ref == IF ast_cel_track_event(st.cfg, AST_CEL_LINKEDID_END)
                    /\ event_type = AST_CEL_CHANNEL_START
                 THEN cel_linkedid_ref(st.linkedids, snapshot.linkedid)
                 ELSE [rc |-> 0, linkedids |-> st.linkedids]
          s1 == [st EXCEPT !.linkedids = ref.linkedids]
      IN  IF ref.rc # 0 THEN s1
          ELSE IF ~ast_cel_track_event(st.cfg, event_type) THEN s1
          ELSE IF event_type \in {AST_CEL_APP_START, AST_CEL_APP_END}
                  /\ ~cel_track_app(st.cfg, snapshot.appl) THEN s1
          ELSE LET ev == ast_cel_create_event(snapshot, event_type, userdefevname, extra)
               IN  [s1 EXCEPT !.out = Append(@, ev),
                              !.calls = @ \o cel_backend_send_cb(st.backends, ev)]

\* mutant: the entry is retired one reference early
check_retire_linkedid_early(st, snapshot) ==
    IF snapshot.linkedid = "" \/ ~ast_cel_track_event(st.cfg, AST_CEL_LINKEDID_END)
    THEN st
    ELSE IF snapshot.linkedid \notin DOMAIN st.linkedids
    THEN st
    ELSE
      LET lid == snapshot.linkedid
          found == st.linkedids[lid] + 1
      IN  IF found <= 4
          THEN cel_report_event(
                   [st EXCEPT !.linkedids = ast_str_container_remove(@, lid)],
                   snapshot, AST_CEL_LINKEDID_END, "", NULL)
          ELSE [st EXCEPT !.linkedids[lid] = found - 2]

\* ao2_find adds a reference; ao2_ref(lid, -1) returns the count before the
\* decrement; the last ao2_ref drops the reference the find took.
check_retire_linkedid(st, snapshot) ==
    IF snapshot.linkedid = "" \/ ~ast_cel_track_event(st.cfg, AST_CEL_LINKEDID_END)
    THEN st
    ELSE IF snapshot.linkedid \notin DOMAIN st.linkedids
    THEN st
    ELSE
      LET lid == snapshot.linkedid
          found == st.linkedids[lid] + 1
      IN  IF found = 3
          THEN cel_report_event(
                   [st EXCEPT !.linkedids = ast_str_container_remove(@, lid)],
                   snapshot, AST_CEL_LINKEDID_END, "", NULL)
          ELSE [st EXCEPT !.linkedids[lid] = found - 2]

-----------------------------------------------------------------------------
(* Dial-status store *)

get_caller_uniqueid(blob) ==
    IF blob.caller = NULL THEN NULL ELSE blob.caller.uniqueid

get_blob_variable(blob, varname) == blob[varname]

\* ao2_link into a container allocated without a duplicate-handling option
\* (ast_cel_engine_init): the blob is added behind the entries already there
save_dialstatus(store, blob) == Append(store, blob)

\* OBJ_KEY comparison: strcmp of the blob's caller uniqueid with the key
dialstatus_cmp(blob, uniqueid) ==
    blob.caller # NULL /\ get_caller_uniqueid(blob) = uniqueid

Matching(store, uniqueid) ==
    {i \in 1 .. Len(store) : dialstatus_cmp(store[i], uniqueid)}

RemoveAt(s, i) == SubSeq(s, 1, i - 1) \o SubSeq(s, i + 1, Len(s))

\* ao2_find(cel_dialstatus_store, uniqueid, OBJ_KEY | OBJ_UNLINK): the first
\* matching entry, unlinked; [blob, store]
get_dialstatus_blob(store, uniqueid) ==
    IF Matching(store, uniqueid) = {}
    THEN [blob |-> NULL, store |-> store]
    ELSE LET i == CHOOSE k \in Matching(store, uniqueid) :
                      \A j \in Matching(store, uniqueid) : k <= j
         IN  [blob |-> store[i], store |-> RemoveAt(store, i)]

-----------------------------------------------------------------------------
(* Channel-snapshot diff handlers *)

cel_channel_app_change(st, old_snapshot, new_snapshot) ==
    IF new_snapshot # NULL /\ old_snapshot # NULL
       /\ old_snapshot.appl = new_snapshot.appl
    THEN st
    ELSE
      LET s1 == IF old_snapshot # NULL /\ old_snapshot.appl # ""
                THEN cel_report_event(st, old_snapshot, AST_CEL_APP_END, "", NULL)
                ELSE st
      IN  IF new_snapshot # NULL /\ new_snapshot.appl # ""
          THEN cel_report_event(s1, new_snapshot, AST_CEL_APP_START, "", NULL)
          ELSE s1

\* mutant: the linkedid is retired before CHANNEL_END is reported
cel_channel_state_change_retire_first(st, old_snapshot, new_snapshot) ==
    IF new_snapshot = NULL
    THEN cel_report_event(check_retire_linkedid(st, old_snapshot),
                          old_snapshot, AST_CEL_CHANNEL_END, "", NULL)
    ELSE IF old_snapshot = NULL
    THEN cel_report_event(st, new_snapshot, AST_CEL_CHANNEL_START, "", NULL)
    ELSE
      LET was_hungup == old_snapshot.dead
          is_hungup == new_snapshot.dead
      IN  IF ~was_hungup /\ is_hungup
          THEN LET got == get_dialstatus_blob(st.store, new_snapshot.uniqueid)
                   dialstatus ==
                       IF got.blob # NULL /\ get_blob_variable(got.blob, "dialstatus") # ""
                       THEN get_blob_variable(got.blob, "dialstatus")
                       ELSE ""
                   extra == [hangupcause |-> new_snapshot.hangupcause,
                             hangupsource |-> new_snapshot.hangupsource,
                             dialstatus |-> dialstatus]
               IN  cel_report_event([st EXCEPT !.store = got.store],
                                    new_snapshot, AST_CEL_HANGUP, "", extra)
          ELSE IF old_snapshot.state # new_snapshot.state /\ new_snapshot.state = "UP"
          THEN cel_report_event(st, new_snapshot, AST_CEL_ANSWER, "", NULL)
          ELSE st

\* mutant: the dial-status entry is taken only when HANGUP will be reported
cel_channel_state_change_tracked_only(st, old_snapshot, new_snapshot) ==
    IF new_snapshot = NULL
    THEN check_retire_linkedid(
             cel_report_event(st, old_snapshot, AST_CEL_CHANNEL_END, "", NULL),
             old_snapshot)
    ELSE IF old_snapshot = NULL
    THEN cel_report_event(st, new_snapshot, AST_CEL_CHANNEL_START, "", NULL)
    ELSE IF ~old_snapshot.dead /\ new_snapshot.dead
    THEN IF st.cfg = NULL THEN st
         ELSE IF ~st.cfg.enable \/ ~ast_cel_track_event(st.cfg, AST_CEL_HANGUP) THEN st
         ELSE
           LET got == get_dialstatus_blob(st.store, new_snapshot.uniqueid)
               dialstatus ==
                   IF got.blob # NULL /\ get_blob_variable(got.blob, "dialstatus") # ""
                   THEN get_blob_variable(got.blob, "dialstatus")
                   ELSE ""
               extra == [hangupcause |-> new_snapshot.hangupcause,
                         hangupsource |-> new_snapshot.hangupsource,
                         dialstatus |-> dialstatus]
           IN  cel_report_event([st EXCEPT !.store = got.store],
                                new_snapshot, AST_CEL_HANGUP, "", extra)
    ELSE IF old_snapshot.state # new_snapshot.state /\ new_snapshot.state = "UP"
    THEN cel_report_event(st, new_snapshot, AST_CEL_ANSWER, "", NULL)
    ELSE st

\* mutant: the answer test comes before the hangup test
cel_channel_state_change_answer_first(st, old_snapshot, new_snapshot) ==
    IF new_snapshot = NULL
    THEN check_retire_linkedid(
             cel_report_event(st, old_snapshot, AST_CEL_CHANNEL_END, "", NULL),
             old_snapshot)
    ELSE IF old_snapshot = NULL
    THEN cel_report_event(st, new_snapshot, AST_CEL_CHANNEL_START, "", NULL)
    ELSE IF old_snapshot.state # new_snapshot.state /\ new_snapshot.state = "UP"
    THEN cel_report_event(st, new_snapshot, AST_CEL_ANSWER, "", NULL)
    ELSE IF ~old_snapshot.dead /\ new_snapshot.dead
    THEN LET got == get_dialstatus_blob(st.store, new_snapshot.uniqueid)
             dialstatus ==
                 IF got.blob # NULL /\ get_blob_variable(got.blob, "dialstatus") # ""
                 THEN get_blob_variable(got.blob, "dialstatus")
                 ELSE ""
             extra == [hangupcause |-> new_snapshot.hangupcause,
                       hangupsource |-> new_snapshot.hangupsource,
                       dialstatus |-> dialstatus]
         IN  cel_report_event([st EXCEPT !.store = got.store],
                              new_snapshot, AST_CEL_HANGUP, "", extra)
    ELSE st

cel_channel_state_change(st, old_snapshot, new_snapshot) ==
    IF new_snapshot = NULL
    THEN check_retire_linkedid(
             cel_report_event(st, old_snapshot, AST_CEL_CHANNEL_END, "", NULL),
             old_snapshot)
    ELSE IF old_snapshot = NULL
    THEN cel_report_event(st, new_snapshot, AST_CEL_CHANNEL_START, "", NULL)
    ELSE
      LET was_hungup == old_snapshot.dead
          is_hungup == new_snapshot.dead
      IN  IF ~was_hungup /\ is_hungup
          THEN LET got == get_dialstatus_blob(st.store, new_snapshot.uniqueid)
                   dialstatus ==
                       IF got.blob # NULL /\ get_blob_variable(got.blob, "dialstatus") # ""
                       THEN get_blob_variable(got.blob, "dialstatus")
                       ELSE ""
                   extra == [hangupcause |-> new_snapshot.hangupcause,
                             hangupsource |-> new_snapshot.hangupsource,
                             dialstatus |-> dialstatus]
               IN  cel_report_event([st EXCEPT !.store = got.store],
                                    new_snapshot, AST_CEL_HANGUP, "", extra)
          ELSE IF old_snapshot.state # new_snapshot.state /\ new_snapshot.state = "UP"
          THEN cel_report_event(st, new_snapshot, AST_CEL_ANSWER, "", NULL)
          ELSE st

\* mutant: the new linkedid is not acquired before the old one is retired
cel_channel_linkedid_change_no_ref(st, old_snapshot, new_snapshot) ==
    IF old_snapshot = NULL \/ new_snapshot = NULL
    THEN st
    ELSE IF old_snapshot.linkedid # new_snapshot.linkedid
    THEN check_retire_linkedid(st, old_snapshot)
    ELSE st

cel_channel_linkedid_change(st, old_snapshot, new_snapshot) ==
    IF old_snapshot = NULL \/ new_snapshot = NULL
    THEN st
    ELSE IF old_snapshot.linkedid # new_snapshot.linkedid
    THEN check_retire_linkedid(
             [st EXCEPT !.linkedids =
                 cel_linkedid_ref(st.linkedids, new_snapshot.linkedid).linkedids],
             old_snapshot)
    ELSE st

\* mutant: the application monitor runs last
cel_channel_monitors_app_last(st, old_snapshot, new_snapshot) ==
    cel_channel_app_change(
        cel_channel_linkedid_change(
            cel_channel_state_change(st, old_snapshot, new_snapshot),
            old_snapshot, new_snapshot),
        old_snapshot, new_snapshot)

\* mutant: the state monitor runs before the application monitor
cel_channel_monitors_state_first(st, old_snapshot, new_snapshot) ==
    cel_channel_linkedid_change(
        cel_channel_app_change(
            cel_channel_state_change(st, old_snapshot, new_snapshot),
            old_snapshot, new_snapshot),
        old_snapshot, new_snapshot)

\* the three monitors, in the order of the array
cel_channel_monitors(st, old_snapshot, new_snapshot) ==
    cel_channel_linkedid_change(
        cel_channel_state_change(
            cel_channel_app_change(st, old_snapshot, new_snapshot),
            old_snapshot, new_snapshot),
        old_snapshot, new_snapshot)

cel_filter_channel_snapshot(snapshot) ==
    IF snapshot = NULL THEN FALSE ELSE snapshot.internal

\* mutant: only the new snapshot is tested for the INTERNAL flag
cel_snapshot_update_cb_new_only(st, old_snapshot, new_snapshot) ==
    IF cel_filter_channel_snapshot(new_snapshot)
    THEN st
    ELSE cel_channel_monitors(st, old_snapshot, new_snapshot)

cel_snapshot_update_cb(st, old_snapshot, new_snapshot) ==
    IF cel_filter_channel_snapshot(old_snapshot)
       \/ cel_filter_channel_snapshot(new_snapshot)
    THEN st
    ELSE cel_channel_monitors(st, old_snapshot, new_snapshot)

-----------------------------------------------------------------------------
(* Bridge, parking, dial, user-event, transfer, pickup and local handlers *)

\* blob: [bridge, channel]
cel_bridge_enter_cb(st, blob) ==
    IF cel_filter_channel_snapshot(blob.channel) THEN st
    ELSE cel_report_event(st, blob.channel, AST_CEL_BRIDGE_ENTER, "",
                          [bridge_id |-> blob.bridge.uniqueid])

cel_bridge_leave_cb(st, blob) ==
    IF cel_filter_channel_snapshot(blob.channel) THEN st
    ELSE cel_report_event(st, blob.channel, AST_CEL_BRIDGE_EXIT, "",
                          [bridge_id |-> blob.bridge.uniqueid])

ParkEventTypes ==
    {"PARKED_CALL", "PARKED_CALL_TIMEOUT", "PARKED_CALL_GIVEUP",
     "PARKED_CALL_UNPARKED", "PARKED_CALL_FAILED", "PARKED_CALL_SWAP"}

\* parked_payload: [event_type, parkee, parker_dial_string, parkinglot]
cel_parking_cb(st, parked_payload) ==
    IF parked_payload.event_type = "PARKED_CALL"
    THEN cel_report_event(st, parked_payload.parkee, AST_CEL_PARK_START, "",
             [parker_dial_string |-> parked_payload.parker_dial_string,
              parking_lot |-> parked_payload.parkinglot])
    ELSE
      LET reason ==
            CASE parked_payload.event_type = "PARKED_CALL_TIMEOUT" -> "ParkedCallTimeOut"
              [] parked_payload.event_type = "PARKED_CALL_GIVEUP" -> "ParkedCallGiveUp"
              [] parked_payload.event_type = "PARKED_CALL_UNPARKED" -> "ParkedCallUnparked"
              [] parked_payload.event_type = "PARKED_CALL_FAILED" -> "ParkedCallFailed"
              [] parked_payload.event_type = "PARKED_CALL_SWAP" -> "ParkedCallSwap"
      IN  cel_report_event(st, parked_payload.parkee, AST_CEL_PARK_END, "",
                           [reason |-> reason])

\* mutant: a message that forwards is not stored
cel_dial_cb_forward_only(st, blob) ==
    IF cel_filter_channel_snapshot(blob.caller) THEN st
    ELSE IF blob.caller = NULL THEN st
    ELSE IF get_blob_variable(blob, "forward") # ""
    THEN cel_report_event(st, blob.caller, AST_CEL_FORWARD, "",
             [forward |-> get_blob_variable(blob, "forward")])
    ELSE IF get_blob_variable(blob, "dialstatus") = ""
    THEN st
    ELSE [st EXCEPT !.store = save_dialstatus(@, blob)]

\* blob: [caller, forward, dialstatus]
cel_dial_cb(st, blob) ==
    IF cel_filter_channel_snapshot(blob.caller) THEN st
    ELSE IF blob.caller = NULL THEN st   \* get_caller_uniqueid(blob) is NULL
    ELSE
      LET s1 == IF get_blob_variable(blob, "forward") # ""
                THEN cel_report_event(st, blob.caller, AST_CEL_FORWARD, "",
                         [forward |-> get_blob_variable(blob, "forward")])
                ELSE st
      IN  IF get_blob_variable(blob, "dialstatus") = ""
          THEN s1
          ELSE [s1 EXCEPT !.store = save_dialstatus(@, blob)]

\* obj: [snapshot, event_type, event, extra]
cel_generic_cb(st, obj) ==
    IF obj.event_type = AST_CEL_USER_DEFINED
    THEN cel_report_event(st, obj.snapshot, obj.event_type, obj.event, obj.extra)
    ELSE st

\* obj: [channel, bridge, result, exten, context]
cel_blind_transfer_cb(st, obj) ==
    IF obj.result # "SUCCESS" THEN st
    ELSE IF obj.exten = NULL \/ obj.context = NULL THEN st
    ELSE cel_report_event(st, obj.channel, AST_CEL_BLINDTRANSFER, "",
             [extension |-> obj.exten.str, context |-> obj.context.str,
              bridge_id |-> obj.bridge.uniqueid])

\* what a read through a null pointer yields when it does not trap
Indeterminate == "(indeterminate)"

\* bridge->uniqueid; the read is undefined when bridge is NULL
BridgeUniqueid(bridge) == IF bridge = NULL THEN Indeterminate ELSE bridge.uniqueid

\* xfer: [to_transferee, to_transfer_target : [bridge_snapshot, channel_snapshot],
\*        dest_type, app]
\* [crashed, st]: bridge1->uniqueid and bridge2->uniqueid are read without a
\* test for NULL; such a read either traps (ub = "trap") or yields an
\* indeterminate value (ub = "read")
cel_attended_transfer_cb(st, xfer, ub) ==
    LET swap == xfer.to_transferee.bridge_snapshot = NULL
        bridge1 == IF swap THEN xfer.to_transfer_target.bridge_snapshot
                   ELSE xfer.to_transferee.bridge_snapshot
        bridge2 == IF swap THEN xfer.to_transferee.bridge_snapshot
                   ELSE xfer.to_transfer_target.bridge_snapshot
        channel1 == IF swap THEN xfer.to_transfer_target.channel_snapshot
                    ELSE xfer.to_transferee.channel_snapshot
        channel2 == IF swap THEN xfer.to_transferee.channel_snapshot
                    ELSE xfer.to_transfer_target.channel_snapshot
        merged == xfer.dest_type \in {"BRIDGE_MERGE", "LINK", "THREEWAY"}
        nullread == bridge1 = NULL \/ (merged /\ bridge2 = NULL)
        extra == IF merged
                 THEN [bridge1_id |-> BridgeUniqueid(bridge1),
                       channel2_name |-> channel2.name,
                       bridge2_id |-> BridgeUniqueid(bridge2)]
                 ELSE [bridge1_id |-> BridgeUniqueid(bridge1),
                       channel2_name |-> channel2.name,
                       app |-> xfer.app]
    IN  IF xfer.dest_type = "FAIL" THEN [crashed |-> FALSE, st |-> st]
        ELSE IF nullread /\ ub = "trap" THEN [crashed |-> TRUE, st |-> st]
        ELSE [crashed |-> FALSE,
              st |-> cel_report_event(st, channel1, AST_CEL_ATTENDEDTRANSFER, "", extra)]

\* obj: [channel, target]
cel_pickup_cb(st, obj) ==
    IF obj.channel = NULL \/ obj.target = NULL THEN st
    ELSE cel_report_event(st, obj.target, AST_CEL_PICKUP, "",
                          [pickup_channel |-> obj.channel.name])

\* obj: [one, two]
cel_local_cb(st, obj) ==
    IF obj.one = NULL \/ obj.two = NULL THEN st
    ELSE cel_report_event(st, obj.one, AST_CEL_LOCAL_OPTIMIZE, "",
                          [local_two |-> obj.two.name])

-----------------------------------------------------------------------------
(* Backend registry *)

\* cel_backend_cmp with OBJ_KEY: strcmp of the names
cel_backend_cmp(backend, name) == backend.name = name

\* mutant: the entry is found but not unlinked
ast_cel_backend_unregister_find_only(backends, name) ==
    IF \E i \in 1 .. Len(backends) : cel_backend_cmp(backends[i], name)
    THEN [rc |-> 0, backends |-> backends]
    ELSE [rc |-> -1, backends |-> backends]

\* [rc, backends]: ao2_find(..., OBJ_KEY | OBJ_UNLINK) removes the first match
ast_cel_backend_unregister(backends, name) ==
    LET hits == {i \in 1 .. Len(backends) : cel_backend_cmp(backends[i], name)}
    IN  IF hits = {}
        THEN [rc |-> -1, backends |-> backends]
        ELSE LET i == CHOOSE k \in hits : \A j \in hits : k <= j
             IN  [rc |-> 0, backends |-> RemoveAt(backends, i)]

\* mutant: the empty name is linked before it is refused
ast_cel_backend_register_link_first(backends, name, backend_callback) ==
    [rc |-> IF name = "" THEN -1 ELSE 0,
     backends |-> Append(backends, [name |-> name, callback |-> backend_callback])]

\* [rc, backends]: the new entry is linked without looking the name up
ast_cel_backend_register(backends, name, backend_callback) ==
    IF name = ""
    THEN [rc |-> -1, backends |-> backends]
    ELSE [rc |-> 0,
          backends |-> Append(backends, [name |-> name, callback |-> backend_callback])]

-----------------------------------------------------------------------------
(* Actions: one per message handler or API call *)

DiffTypes ==
    {AST_CEL_CHANNEL_START, AST_CEL_CHANNEL_END, AST_CEL_ANSWER,
     AST_CEL_HANGUP, AST_CEL_APP_START, AST_CEL_APP_END}

RECURSIVE TypesOf(_, _)
\* the channel-diff event types of the events of `evs` built from uniqueid u
TypesOf(evs, u) ==
    IF evs = <<>> THEN <<>>
    ELSE IF Head(evs).uniqueid = u /\ Head(evs).event_type \in DiffTypes
    THEN <<Head(evs).event_type>> \o TypesOf(Tail(evs), u)
    ELSE TypesOf(Tail(evs), u)

Now == HState(cel_configs, cel_backends, linkedids, cel_dialstatus_store)

\* the events the callback invocations `cs` were given, in order
EventsOf(cs) == [k \in 1 .. Len(cs) |-> cs[k].ev]

\* the statements run left s, for the message msg
Effects(s, msg) ==
    /\ linkedids' = s.linkedids
    /\ cel_dialstatus_store' = s.store
    /\ out' = s.out
    /\ calls' = s.calls
    /\ last' = msg
    /\ chanlog' = [u \in Uids |-> chanlog[u] \o TypesOf(s.out, u)]
    /\ hist' = IF hist.on
               THEN [hist EXCEPT !.msgs = Append(@, msg),
                                 !.delivered = @ \o EventsOf(s.calls)]
               ELSE hist
    /\ UNCHANGED <<cel_backends, cel_configs, engine>>

\* the handler ran from its first to its last statement and left s
Handled(s, msg) ==
    /\ Effects(s, msg)
    /\ UNCHANGED threads

\* the update is a hangup transition the state-change handler processes
IsHangup(old, new) ==
    /\ old # NULL /\ new # NULL
    /\ ~old.internal /\ ~new.internal
    /\ ~old.dead /\ new.dead

\* the cache publishes the first snapshot of a channel
CacheCreate(u, new) ==
    /\ nupd[u] = 0
    /\ channels' = [channels EXCEPT ![u] = new]
    /\ nupd' = [nupd EXCEPT ![u] = 1]
    /\ Handled(cel_snapshot_update_cb(Now, NULL, new),
               [op |-> "cache_update", old |-> NULL, new |-> new])
    /\ UNCHANGED dialed

\* the cache replaces the snapshot of a live channel; the technology of a
\* channel, and with it the INTERNAL flag, does not change
CacheChange(u, new) ==
    /\ channels[u] # NULL
    /\ nupd[u] <= MaxUpdates
    /\ new.internal = channels[u].internal
    /\ channels' = [channels EXCEPT ![u] = new]
    /\ nupd' = [nupd EXCEPT ![u] = @ + 1]
    /\ Handled(cel_snapshot_update_cb(Now, channels[u], new),
               [op |-> "cache_update", old |-> channels[u], new |-> new,
                dialed |-> dialed[u]])
    /\ dialed' = IF IsHangup(channels[u], new) THEN [dialed EXCEPT ![u] = ""] ELSE dialed

\* the cache drops the snapshot of a channel that was destroyed
CacheDestroy(u) ==
    /\ channels[u] # NULL
    /\ channels' = [channels EXCEPT ![u] = NULL]
    /\ UNCHANGED nupd
    /\ Handled(cel_snapshot_update_cb(Now, channels[u], NULL),
               [op |-> "cache_update", old |-> channels[u], new |-> NULL])
    /\ UNCHANGED dialed

Dial(blob) ==
    /\ Len(cel_dialstatus_store) < MaxDial
    /\ Handled(cel_dial_cb(Now, blob), [op |-> "dial", snapshot |-> blob.caller])
    /\ dialed' = IF blob.caller # NULL /\ ~blob.caller.internal /\ blob.dialstatus # ""
                 THEN [dialed EXCEPT ![blob.caller.uniqueid] = blob.dialstatus]
                 ELSE dialed
    /\ UNCHANGED <<channels, nupd>>

\* a dial message is handled; the message is kept whole in `last`
DialMessage(blob) ==
    /\ Len(cel_dialstatus_store) < MaxDial
    /\ Handled(cel_dial_cb(Now, blob),
               [op |-> "dial", snapshot |-> blob.caller, forward |-> blob.forward,
                dialstatus |-> blob.dialstatus])
    /\ dialed' = IF blob.caller # NULL /\ ~blob.caller.internal /\ blob.dialstatus # ""
                 THEN [dialed EXCEPT ![blob.caller.uniqueid] = blob.dialstatus]
                 ELSE dialed
    /\ UNCHANGED <<channels, nupd>>

BridgeEnter(blob) ==
    /\ Handled(cel_bridge_enter_cb(Now, blob), [op |-> "bridge_enter", snapshot |-> blob.channel])
    /\ UNCHANGED <<channels, nupd, dialed>>

BridgeLeave(blob) ==
    /\ Handled(cel_bridge_leave_cb(Now, blob), [op |-> "bridge_leave", snapshot |-> blob.channel])
    /\ UNCHANGED <<channels, nupd, dialed>>

Parking(payload) ==
    /\ Handled(cel_parking_cb(Now, payload), [op |-> "parking", snapshot |-> payload.parkee])
    /\ UNCHANGED <<channels, nupd, dialed>>

Generic(obj) ==
    /\ Handled(cel_generic_cb(Now, obj), [op |-> "generic", snapshot |-> obj.snapshot])
    /\ UNCHANGED <<channels, nupd, dialed>>

BlindTransfer(obj) ==
    /\ Handled(cel_blind_transfer_cb(Now, obj), [op |-> "blind_transfer", snapshot |-> obj.channel])
    /\ UNCHANGED <<channels, nupd, dialed>>

Pickup(obj) ==
    /\ Handled(cel_pickup_cb(Now, obj), [op |-> "pickup", snapshot |-> obj.target])
    /\ UNCHANGED <<channels, nupd, dialed>>

LocalOptimization(obj) ==
    /\ Handled(cel_local_cb(Now, obj), [op |-> "local", snapshot |-> obj.one])
    /\ UNCHANGED <<channels, nupd, dialed>>

-----------------------------------------------------------------------------
(* Event records: the information elements of an event and the record a     *)
(* backend fills from them                                                   *)

\* S_OR(a, b): a unless it is NULL or empty; a NULL string is passed as ""
S_OR(a, b) == IF a = "" THEN b ELSE a

\* ast_cel_create_event with every field of the snapshot: the information
\* elements handed to ast_event_new, by name
ast_cel_create_event_ies(snapshot, event_type, userdefevname, extra_txt, eventtime) ==
    [CEL_EVENT_TYPE |-> event_type,
     CEL_EVENT_TIME |-> eventtime.tv_sec,
     CEL_EVENT_TIME_USEC |-> eventtime.tv_usec,
     CEL_USEREVENT_NAME |-> S_OR(userdefevname, ""),
     CEL_CIDNAME |-> snapshot.caller_name,
     CEL_CIDNUM |-> snapshot.caller_number,
     CEL_CIDANI |-> snapshot.caller_ani,
     CEL_CIDRDNIS |-> snapshot.caller_rdnis,
     CEL_CIDDNID |-> snapshot.caller_dnid,
     CEL_EXTEN |-> snapshot.exten,
     CEL_CONTEXT |-> snapshot.context,
     CEL_CHANNAME |-> snapshot.name,
     CEL_APPNAME |-> snapshot.appl,
     CEL_APPDATA |-> snapshot.data,
     CEL_AMAFLAGS |-> snapshot.amaflags,
     CEL_ACCTCODE |-> snapshot.accountcode,
     CEL_PEERACCT |-> snapshot.peeraccount,
     CEL_UNIQUEID |-> snapshot.uniqueid,
     CEL_LINKEDID |-> snapshot.linkedid,
     CEL_USERFIELD |-> snapshot.userfield,
     CEL_EXTRA |-> S_OR(extra_txt, ""),
     CEL_PEER |-> ""]

AST_CEL_EVENT_RECORD_VERSION == 3

\* [rc, r]: the record filled from the information elements e; r is left as
\* it was (NULL here) when the version of the caller's structure is wrong
ast_cel_fill_record(e, version) ==
    IF version # AST_CEL_EVENT_RECORD_VERSION
    THEN [rc |-> -1, r |-> NULL]
    ELSE [rc |-> 0,
          r |-> [event_type |-> e.CEL_EVENT_TYPE,
                 event_time |-> [tv_sec |-> e.CEL_EVENT_TIME,
                                 tv_usec |-> e.CEL_EVENT_TIME_USEC],
                 user_defined_name |->
                     IF e.CEL_EVENT_TYPE = AST_CEL_USER_DEFINED
                     THEN e.CEL_USEREVENT_NAME ELSE "",
                 caller_id_name |-> S_OR(e.CEL_CIDNAME, ""),
                 caller_id_num |-> S_OR(e.CEL_CIDNUM, ""),
                 caller_id_ani |-> S_OR(e.CEL_CIDANI, ""),
                 caller_id_rdnis |-> S_OR(e.CEL_CIDRDNIS, ""),
                 caller_id_dnid |-> S_OR(e.CEL_CIDDNID, ""),
                 extension |-> S_OR(e.CEL_EXTEN, ""),
                 context |-> S_OR(e.CEL_CONTEXT, ""),
                 channel_name |-> S_OR(e.CEL_CHANNAME, ""),
                 application_name |-> S_OR(e.CEL_APPNAME, ""),
                 application_data |-> S_OR(e.CEL_APPDATA, ""),
                 account_code |-> S_OR(e.CEL_ACCTCODE, ""),
                 peer_account |-> S_OR(e.CEL_ACCTCODE, ""),
                 unique_id |-> S_OR(e.CEL_UNIQUEID, ""),
                 linked_id |-> S_OR(e.CEL_LINKEDID, ""),
                 amaflag |-> e.CEL_AMAFLAGS,
                 user_field |-> S_OR(e.CEL_USERFIELD, ""),
                 peer |-> S_OR(e.CEL_PEER, ""),
                 extra |-> S_OR(e.CEL_EXTRA, "")]]

\* a backend is handed the event built from the snapshot and fills a record
FillRecord(snapshot, event_type, userdefevname, eventtime, version) ==
    /\ LET e == ast_cel_create_event_ies(snapshot, event_type, userdefevname,
                                         "", eventtime)
           f == ast_cel_fill_record(e, version)
       IN  last' = [op |-> "fill_record", snapshot |-> snapshot,
                    event_type |-> event_type, eventtime |-> eventtime,
                    rc |-> f.rc, r |-> f.r]
    /\ out' = <<>>
    /\ calls' = <<>>
    /\ UNCHANGED <<channels, nupd, linkedids, cel_dialstatus_store, cel_backends,
                   cel_configs, chanlog, dialed, hist, engine, threads>>

\* the outcomes of a read through a null pointer
NullReads == {"trap", "read"}

\* an attended transfer message is handled; a trap ends the process
AttendedTransfer(xfer, ub) ==
    /\ engine = "running"
    /\ LET r == cel_attended_transfer_cb(Now, xfer, ub)
           msg == [op |-> "attended_transfer", xfer |-> xfer]
       IN  IF r.crashed
           THEN /\ engine' = "crashed"
                /\ last' = msg
                /\ out' = <<>>
                /\ calls' = <<>>
                /\ UNCHANGED <<linkedids, cel_dialstatus_store, cel_backends,
                               cel_configs, chanlog, hist>>
           ELSE Effects(r.st, msg)
    /\ UNCHANGED <<channels, nupd, dialed, threads>>

Register(name, cb) ==
    /\ Len(cel_backends) < MaxBackends
    /\ LET r == ast_cel_backend_register(cel_backends, name, cb)
       IN  /\ cel_backends' = r.backends
           /\ last' = [op |-> "register", name |-> name, rc |-> r.rc,
                       before |-> cel_backends]
    /\ out' = <<>>
    /\ calls' = <<>>
    /\ UNCHANGED <<channels, nupd, linkedids, cel_dialstatus_store, cel_configs, chanlog, dialed>>
    /\ UNCHANGED <<hist, engine, threads>>

Unregister(name) ==
    /\ LET r == ast_cel_backend_unregister(cel_backends, name)
       IN  /\ cel_backends' = r.backends
           /\ last' = [op |-> "unregister", name |-> name, rc |-> r.rc,
                       before |-> cel_backends]
    /\ out' = <<>>
    /\ calls' = <<>>
    /\ UNCHANGED <<channels, nupd, linkedids, cel_dialstatus_store, cel_configs, chanlog, dialed>>
    /\ UNCHANGED <<hist, engine, threads>>

Reload(pending) ==
    /\ cel_configs' = do_reload(cel_configs, pending)
    /\ last' = [op |-> "reload", rc |-> cel_pre_apply_config(pending)]
    /\ out' = <<>>
    /\ calls' = <<>>
    /\ UNCHANGED <<channels, nupd, linkedids, cel_dialstatus_store, cel_backends, chanlog, dialed>>
    /\ UNCHANGED <<hist, engine, threads>>

\* a reference to the configuration object that is published now, and no
\* reference; any other value of a frame's `held` is the value of an object
\* that was replaced while the reference was held
Current == [current |-> TRUE]
NoRef == [noref |-> TRUE]

\* the frames after the global configuration object was replaced: the
\* reference of a report in flight keeps the replaced object, whose value was old
Unpublished(old) ==
    IF "report" \in DOMAIN threads
    THEN IF threads.report.held = Current
         THEN [threads EXCEPT !.report.held = old]
         ELSE threads
    ELSE threads

\* ast_cel_engine_reload: the configuration file is processed again
ProcessConfig(enable, events, apps) ==
    /\ LET r == aco_process_config(cel_configs, enable, events, apps)
       IN  /\ cel_configs' = r.cfg
           /\ last' = [op |-> "process_config", events |-> events, apps |-> apps,
                       enable |-> enable, pending |-> r.pending, rc |-> r.rc]
           /\ threads' = IF r.rc = 0 THEN Unpublished(cel_configs) ELSE threads
    /\ out' = <<>>
    /\ calls' = <<>>
    /\ UNCHANGED <<channels, nupd, linkedids, cel_dialstatus_store, cel_backends,
                   chanlog, dialed, hist, engine>>

\* ast_cel_set_config: the general member of the published object is
\* assigned; a reference held on that object now reads the new value
SetConfig(config) ==
    /\ cel_configs' = config
    /\ last' = [op |-> "set_config"]
    /\ out' = <<>>
    /\ calls' = <<>>
    /\ UNCHANGED <<channels, nupd, linkedids, cel_dialstatus_store, cel_backends,
                   chanlog, dialed, hist, engine, threads>>

-----------------------------------------------------------------------------
(* cel_report_event statement by statement, on the router's thread, while    *)
(* reloads and ast_cel_set_config run on other threads.  The frame keeps the *)
(* candidate events the handler still has to report (todo), the reference    *)
(* of the RAII variable cfg (held), the value read through it (entry) and    *)
(* every configuration value read since the handler was invoked (seen).      *)

ReportIdle ==
    [pc |-> "idle", todo |-> <<>>, held |-> NoRef, entry |-> NoRef, seen |-> {}]

\* the value read through the reference the frame holds
HeldView(f) == IF f.held = Current THEN cel_configs ELSE f.held

\* cel_report_event returns: the RAII reference is dropped and the handler
\* goes on to its next report, if any
Returned(f) ==
    [f EXCEPT !.todo = Tail(@), !.held = NoRef,
              !.pc = IF Tail(f.todo) = <<>> THEN "idle" ELSE "enter"]

\* cel_bridge_enter_cb up to its call of cel_report_event
DispatchBridgeEnter(blob) ==
    /\ threads.report.pc = "idle"
    /\ threads' = [threads EXCEPT !.report =
          IF cel_filter_channel_snapshot(blob.channel)
          THEN ReportIdle
          ELSE [ReportIdle EXCEPT
                  !.pc = "enter",
                  !.todo = <<[snapshot |-> blob.channel,
                              event_type |-> AST_CEL_BRIDGE_ENTER,
                              extra |-> [bridge_id |-> blob.bridge.uniqueid]]>>]]
    /\ last' = [op |-> "bridge_enter", snapshot |-> blob.channel]
    /\ out' = <<>>
    /\ calls' = <<>>
    /\ UNCHANGED <<channels, nupd, linkedids, cel_dialstatus_store, cel_backends,
                   cel_configs, chanlog, dialed, hist, engine>>

\* cel_snapshot_update_cb(NULL, new) up to its first call of cel_report_event:
\* APP_START from the application monitor, CHANNEL_START from the state monitor
DispatchCreate(u, new) ==
    /\ threads.report.pc = "idle"
    /\ nupd[u] = 0
    /\ channels' = [channels EXCEPT ![u] = new]
    /\ nupd' = [nupd EXCEPT ![u] = 1]
    /\ LET todo ==
             (IF new.appl # ""
              THEN <<[snapshot |-> new, event_type |-> AST_CEL_APP_START, extra |-> NULL]>>
              ELSE <<>>)
             \o <<[snapshot |-> new, event_type |-> AST_CEL_CHANNEL_START, extra |-> NULL]>>
       IN  threads' = [threads EXCEPT !.report =
              IF cel_filter_channel_snapshot(new)
              THEN ReportIdle
              ELSE [ReportIdle EXCEPT !.pc = "enter", !.todo = todo]]
    /\ last' = [op |-> "cache_update", old |-> NULL, new |-> new]
    /\ out' = <<>>
    /\ calls' = <<>>
    /\ UNCHANGED <<linkedids, cel_dialstatus_store, cel_backends, cel_configs,
                   chanlog, dialed, hist, engine>>

\* cel_report_event: cfg = ao2_global_obj_ref(cel_configs) and the enable test
ReportEnter ==
    /\ threads.report.pc = "enter"
    /\ LET f == [threads.report EXCEPT !.held = Current, !.entry = cel_configs,
                                       !.seen = @ \cup {cel_configs}]
       IN  threads' = [threads EXCEPT !.report =
              IF cel_configs = NULL THEN Returned(f)
              ELSE IF ~cel_configs.enable THEN Returned(f)
              ELSE [f EXCEPT !.pc = "linked"]]
    /\ out' = <<>>
    /\ calls' = <<>>
    /\ UNCHANGED <<channels, nupd, linkedids, cel_dialstatus_store, cel_backends,
                   cel_configs, last, chanlog, dialed, hist, engine>>

\* cel_report_event: ast_cel_track_event(AST_CEL_LINKEDID_END), which reads
\* the global configuration again, and cel_linkedid_ref
ReportLinked ==
    /\ threads.report.pc = "linked"
    /\ LET f == [threads.report EXCEPT !.seen = @ \cup {cel_configs}]
           ev == Head(f.todo)
           ref == IF ast_cel_track_event(cel_configs, AST_CEL_LINKEDID_END)
                     /\ ev.event_type = AST_CEL_CHANNEL_START
                  THEN cel_linkedid_ref(linkedids, ev.snapshot.linkedid)
                  ELSE [rc |-> 0, linkedids |-> linkedids]
       IN  /\ linkedids' = ref.linkedids
           /\ threads' = [threads EXCEPT !.report =
                  IF ref.rc # 0 THEN Returned(f) ELSE [f EXCEPT !.pc = "mask"]]
    /\ out' = <<>>
    /\ calls' = <<>>
    /\ UNCHANGED <<channels, nupd, cel_dialstatus_store, cel_backends,
                   cel_configs, last, chanlog, dialed, hist, engine>>

\* cel_report_event: ast_cel_track_event(event_type), which reads the global
\* configuration again
ReportMask ==
    /\ threads.report.pc = "mask"
    /\ LET f == [threads.report EXCEPT !.seen = @ \cup {cel_configs}]
       IN  threads' = [threads EXCEPT !.report =
              IF ~ast_cel_track_event(cel_configs, Head(f.todo).event_type)
              THEN Returned(f)
              ELSE [f EXCEPT !.pc = "app"]]
    /\ out' = <<>>
    /\ calls' = <<>>
    /\ UNCHANGED <<channels, nupd, linkedids, cel_dialstatus_store, cel_backends,
                   cel_configs, last, chanlog, dialed, hist, engine>>

\* cel_report_event: cel_track_app for the application events, which reads
\* the global configuration again; then the event is built and fanned out
ReportApp ==
    /\ threads.report.pc = "app"
    /\ LET ev == Head(threads.report.todo)
           is_app == ev.event_type \in {AST_CEL_APP_START, AST_CEL_APP_END}
           f == IF is_app
                THEN [threads.report EXCEPT !.seen = @ \cup {cel_configs}]
                ELSE threads.report
           s == IF is_app /\ ~cel_track_app(cel_configs, ev.snapshot.appl)
                THEN Now
                ELSE LET e == ast_cel_create_event(ev.snapshot, ev.event_type, "", ev.extra)
                     IN  [Now EXCEPT !.out = <<e>>,
                                     !.calls = cel_backend_send_cb(cel_backends, e)]
       IN  /\ Effects(s, last)
           /\ threads' = [threads EXCEPT !.report = Returned(f)]
    /\ UNCHANGED <<channels, nupd, dialed>>

-----------------------------------------------------------------------------
(* Engine shutdown *)

\* mutant: the teardown retires a linkedid the tracker still holds
ast_cel_engine_term_retire(s) ==
    LET evs == IF DOMAIN s.linkedids = {} THEN <<>>
               ELSE <<[event_type |-> AST_CEL_LINKEDID_END,
                       linkedid |-> CHOOSE L \in DOMAIN s.linkedids : TRUE]>>
    IN  [s EXCEPT !.linkedids = <<>>, !.store = <<>>, !.out = evs,
                  !.calls = [k \in 1 .. Len(evs) |->
                               [name |-> "b1", callback |-> "cb1", ev |-> evs[k]]],
                  !.backends = <<>>]

\* ast_cel_engine_term after the router was joined: the three containers are
\* dropped with ao2_cleanup; cel_report_event is not called
ast_cel_engine_term(s) ==
    [s EXCEPT !.linkedids = <<>>, !.store = <<>>, !.backends = <<>>,
              !.out = <<>>, !.calls = <<>>]

\* the router subscription delivers messages to the handlers until
\* stasis_message_router_unsubscribe_and_join has returned
Subscribed == engine # "terminated"

\* aco_info_destroy and ao2_global_obj_release(cel_configs); the handlers are
\* still subscribed
TermRelease ==
    /\ engine = "running"
    /\ engine' = "released"
    /\ cel_configs' = NULL
    /\ UNCHANGED <<channels, nupd, linkedids, cel_dialstatus_store, cel_backends,
                   out, calls, last, chanlog, dialed, hist, threads>>

\* stasis_message_router_unsubscribe_and_join and the rest of the teardown
TermJoin ==
    /\ engine = "released"
    /\ engine' = "terminated"
    /\ LET s == ast_cel_engine_term(Now)
       IN  /\ linkedids' = s.linkedids
           /\ cel_dialstatus_store' = s.store
           /\ cel_backends' = s.backends
           /\ out' = s.out
           /\ calls' = s.calls
           /\ hist' = IF hist.on
                      THEN [hist EXCEPT !.delivered = @ \o EventsOf(s.calls)]
                      ELSE hist
    /\ last' = [op |-> "term", linkedids |-> linkedids,
                store |-> cel_dialstatus_store]
    /\ UNCHANGED <<channels, nupd, cel_configs, chanlog, dialed, threads>>

-----------------------------------------------------------------------------
(* The fan-out callback by callback.  Between two callbacks, and while one   *)
(* runs, the callback itself or another thread may call the registry API.    *)

\* mutant: the traversal reads the container as it is at each callback
ao2_callback_targets_live(snapshot, backends) == backends

\* ao2_callback(cel_backends, OBJ_MULTIPLE | OBJ_NODATA, ...): the entries the
\* traversal visits are those it collected, under the container lock, before
\* the first callback
ao2_callback_targets(snapshot, backends) == snapshot

\* the holder of the container lock while the callbacks run
ao2_callback_lock == "free"

FanoutIdle == [pc |-> "idle", lock |-> "free"]

\* cel_bridge_enter_cb and cel_report_event up to the call of ao2_callback
FanoutBegin(blob) ==
    /\ threads.fanout.pc \in {"idle", "done"}
    /\ LET s == cel_bridge_enter_cb([Now EXCEPT !.backends = <<>>], blob)
       IN  /\ threads' = [threads EXCEPT !.fanout =
                  IF s.out = <<>> THEN FanoutIdle
                  ELSE [pc |-> "callback", lock |-> ao2_callback_lock,
                        ev |-> s.out[1], snapshot |-> cel_backends,
                        atstart |-> cel_backends, i |-> 1]]
           /\ Effects(s, [op |-> "bridge_enter", snapshot |-> blob.channel])
    /\ UNCHANGED <<channels, nupd, dialed>>

\* cel_backend_send_cb for the next entry of the traversal
FanoutCallback ==
    /\ threads.fanout.pc = "callback"
    /\ LET f == threads.fanout
           targets == ao2_callback_targets(f.snapshot, cel_backends)
       IN  IF f.i <= Len(targets)
           THEN /\ calls' = Append(calls, [name |-> targets[f.i].name,
                                           callback |-> targets[f.i].callback,
                                           ev |-> f.ev])
                /\ threads' = [threads EXCEPT !.fanout.i = @ + 1]
           ELSE /\ calls' = calls
                /\ threads' = [threads EXCEPT !.fanout.pc = "done",
                                              !.fanout.lock = "free"]
    /\ UNCHANGED <<channels, nupd, linkedids, cel_dialstatus_store, cel_backends,
                   cel_configs, out, last, chanlog, dialed, hist, engine>>

\* ast_cel_backend_register called while the container lock is free; the
\* callbacks invoked so far by a fan-out in progress stay on record
ApiRegister(name, cb) ==
    /\ threads.fanout.lock = "free"
    /\ Len(cel_backends) < MaxBackends
    /\ cel_backends' = ast_cel_backend_register(cel_backends, name, cb).backends
    /\ UNCHANGED <<channels, nupd, linkedids, cel_dialstatus_store, cel_configs,
                   out, calls, last, chanlog, dialed, hist, engine, threads>>

\* ast_cel_backend_unregister called while the container lock is free
ApiUnregister(name) ==
    /\ threads.fanout.lock = "free"
    /\ cel_backends' = ast_cel_backend_unregister(cel_backends, name).backends
    /\ UNCHANGED <<channels, nupd, linkedids, cel_dialstatus_store, cel_configs,
                   out, calls, last, chanlog, dialed, hist, engine, threads>>

-----------------------------------------------------------------------------
(* The linked-id tracker statement by statement.  Two cache updates are      *)
(* dispatched in parallel: thread "retire" runs the destruction of channel   *)
(* 1, thread "acquire" the creation of channel 2.  Every ao2 call is atomic  *)
(* (it takes and drops the container lock or uses an atomic counter); no     *)
(* lock is held from one call to the next.                                   *)

IdleFrame == [pc |-> "idle"]

\* cel_snapshot_update_cb(old, NULL) up to the call of check_retire_linkedid:
\* the application monitor, then CHANNEL_END
RetireBegin(u) ==
    /\ threads.retire.pc = "idle"
    /\ channels[u] # NULL
    /\ ~cel_filter_channel_snapshot(channels[u])
    /\ channels' = [channels EXCEPT ![u] = NULL]
    /\ Effects(cel_report_event(cel_channel_app_change(Now, channels[u], NULL),
                                channels[u], AST_CEL_CHANNEL_END, "", NULL),
               [op |-> "cache_update", old |-> channels[u], new |-> NULL])
    /\ threads' = [threads EXCEPT !.retire =
                      [pc |-> "find", snapshot |-> channels[u], removed |-> FALSE]]
    /\ UNCHANGED <<nupd, dialed>>

\* check_retire_linkedid: the early returns and ao2_find, which adds a reference
RetireFind ==
    /\ threads.retire.pc = "find"
    /\ LET lid == threads.retire.snapshot.linkedid
           found == /\ lid # ""
                    /\ ast_cel_track_event(cel_configs, AST_CEL_LINKEDID_END)
                    /\ lid \in DOMAIN linkedids
       IN  /\ linkedids' = IF found THEN [linkedids EXCEPT ![lid] = @ + 1]
                                    ELSE linkedids
           /\ threads' = [threads EXCEPT !.retire.pc = IF found THEN "unref" ELSE "done"]
    /\ out' = <<>>
    /\ calls' = <<>>
    /\ UNCHANGED <<channels, nupd, cel_dialstatus_store, cel_backends, cel_configs,
                   last, chanlog, dialed, hist, engine>>

\* check_retire_linkedid: ao2_ref(lid, -1) == 3, the count before the decrement
RetireUnref ==
    /\ threads.retire.pc = "unref"
    /\ LET lid == threads.retire.snapshot.linkedid
       IN  /\ linkedids' = [linkedids EXCEPT ![lid] = @ - 1]
           /\ threads' = [threads EXCEPT !.retire.pc =
                             IF linkedids[lid] = 3 THEN "remove" ELSE "release"]
    /\ out' = <<>>
    /\ calls' = <<>>
    /\ UNCHANGED <<channels, nupd, cel_dialstatus_store, cel_backends, cel_configs,
                   last, chanlog, dialed, hist, engine>>

\* check_retire_linkedid: ast_str_container_remove, then LINKEDID_END
RetireRemove ==
    /\ threads.retire.pc = "remove"
    /\ LET snapshot == threads.retire.snapshot
           st == [Now EXCEPT !.linkedids =
                     ast_str_container_remove(@, snapshot.linkedid)]
       IN  Effects(cel_report_event(st, snapshot, AST_CEL_LINKEDID_END, "", NULL), last)
    /\ threads' = [threads EXCEPT !.retire.pc = "release", !.retire.removed = TRUE]
    /\ UNCHANGED <<channels, nupd, dialed>>

\* check_retire_linkedid: the last ao2_ref(lid, -1) drops the reference of the
\* find; on an entry that was unlinked it leaves the container as it is
RetireRelease ==
    /\ threads.retire.pc = "release"
    /\ LET lid == threads.retire.snapshot.linkedid
       IN  linkedids' = IF threads.retire.removed THEN linkedids
                        ELSE [linkedids EXCEPT ![lid] = @ - 1]
    /\ threads' = [threads EXCEPT !.retire.pc = "done"]
    /\ out' = <<>>
    /\ calls' = <<>>
    /\ UNCHANGED <<channels, nupd, cel_dialstatus_store, cel_backends, cel_configs,
                   last, chanlog, dialed, hist, engine>>

\* cel_snapshot_update_cb(NULL, new) up to the call of cel_linkedid_ref in
\* cel_report_event(new, CHANNEL_START)
AcquireBegin(u, new) ==
    /\ threads.acquire.pc = "idle"
    /\ nupd[u] = 0
    /\ ~cel_filter_channel_snapshot(new)
    /\ channels' = [channels EXCEPT ![u] = new]
    /\ nupd' = [nupd EXCEPT ![u] = 1]
    /\ Effects(cel_channel_app_change(Now, NULL, new),
               [op |-> "cache_update", old |-> NULL, new |-> new])
    /\ threads' = [threads EXCEPT !.acquire =
                      [pc |-> IF cel_configs = NULL THEN "done"
                              ELSE IF ~cel_configs.enable THEN "done"
                              ELSE IF ast_cel_track_event(cel_configs, AST_CEL_LINKEDID_END)
                              THEN "find" ELSE "report",
                       snapshot |-> new]]
    /\ UNCHANGED dialed

\* cel_linkedid_ref: the empty test and ao2_find, which adds a reference
AcquireFind ==
    /\ threads.acquire.pc = "find"
    /\ LET lid == threads.acquire.snapshot.linkedid
       IN  /\ linkedids' = IF lid # "" /\ lid \in DOMAIN linkedids
                           THEN [linkedids EXCEPT ![lid] = @ + 1]
                           ELSE linkedids
           /\ threads' = [threads EXCEPT !.acquire.pc =
                             IF lid = "" THEN "done"
                             ELSE IF lid \in DOMAIN linkedids THEN "report"
                             ELSE "link"]
    /\ out' = <<>>
    /\ calls' = <<>>
    /\ UNCHANGED <<channels, nupd, cel_dialstatus_store, cel_backends, cel_configs,
                   last, chanlog, dialed, hist, engine>>

\* cel_linkedid_ref: ao2_alloc and ao2_link of a new entry (no other thread
\* links entries while this one is between its find and its link)
AcquireLink ==
    /\ threads.acquire.pc = "link"
    /\ threads.acquire.snapshot.linkedid \notin DOMAIN linkedids
    /\ linkedids' = linkedids @@ (threads.acquire.snapshot.linkedid :> 2)
    /\ threads' = [threads EXCEPT !.acquire.pc = "report"]
    /\ out' = <<>>
    /\ calls' = <<>>
    /\ UNCHANGED <<channels, nupd, cel_dialstatus_store, cel_backends, cel_configs,
                   last, chanlog, dialed, hist, engine>>

\* cel_report_event(new, CHANNEL_START) after cel_linkedid_ref returned 0
AcquireReport ==
    /\ threads.acquire.pc = "report"
    /\ LET snapshot == threads.acquire.snapshot
           s == IF ~ast_cel_track_event(cel_configs, AST_CEL_CHANNEL_START)
                THEN Now
                ELSE LET ev == ast_cel_create_event(snapshot, AST_CEL_CHANNEL_START, "", NULL)
                     IN  [Now EXCEPT !.out = <<ev>>,
                                     !.calls = cel_backend_send_cb(cel_backends, ev)]
       IN  Effects(s, last)
    /\ threads' = [threads EXCEPT !.acquire.pc = "done"]
    /\ UNCHANGED <<channels, nupd, dialed>>

-----------------------------------------------------------------------------
(* Inputs *)

\* ast_cel_general_config values that pass cel_pre_apply_config
ConfigsOf(enables, masks, appsets) ==
    {c \in [enable : enables, events : masks, apps : appsets] :
        cel_pre_apply_config(c) = 0}

DiffBits == DiffTypes \cup {AST_CEL_LINKEDID_END}

LinkedMasks ==
    {{AST_CEL_LINKEDID_END}, AllBits, DiffBits \ {AST_CEL_CHANNEL_START},
     DiffBits \ {AST_CEL_HANGUP, AST_CEL_APP_START}}

\* snapshots that differ in linkedid, state and DEAD flag
LinkedSnaps(u) == Snaps(u, LinkedIds, States, BOOLEAN, {""}, {FALSE})

\* snapshots of one channel that is not internal, in every state
ChanSnaps(u) == Snaps(u, LinkedIds, States, BOOLEAN, Appls, {FALSE})

\* the snapshot carried by a message other than a cache update
MsgSnapshots ==
    {s \in UNION {Snapshots(u) : u \in Uids} :
        s.linkedid = "L1" /\ s.state = "UP" /\ ~s.dead /\ s.appl = ""}

DialBlobs(callers, forwards, statuses) ==
    [caller : callers, forward : forwards, dialstatus : statuses]

-----------------------------------------------------------------------------
(* Specifications *)

\* the engine after ast_cel_engine_init, with the configuration loaded
InitCore(cfgs, backends) ==
    /\ channels = [u \in Uids |-> NULL]
    /\ nupd = [u \in Uids |-> 0]
    /\ linkedids = <<>>
    /\ cel_dialstatus_store = <<>>
    /\ cel_backends = backends
    /\ cel_configs \in cfgs
    /\ out = <<>>
    /\ calls = <<>>
    /\ last = [op |-> "init"]
    /\ chanlog = [u \in Uids |-> <<>>]
    /\ dialed = [u \in Uids |-> ""]
    /\ engine = "running"

\* every handler runs as one step; no history is kept
InitWith(cfgs, backends) ==
    /\ InitCore(cfgs, backends)
    /\ hist = [on |-> FALSE]
    /\ threads = <<>>

\* CEL enabled and LINKEDID_END tracked throughout; two channels that share
\* and change linkedids
InitLinked ==
    InitWith(ConfigsOf({TRUE}, LinkedMasks, {{}}),
             <<[name |-> "b1", callback |-> "cb1"]>>)

NextLinked ==
    \/ \E u \in Uids : \E new \in LinkedSnaps(u) : CacheCreate(u, new)
    \/ \E u \in Uids : \E new \in LinkedSnaps(u) : CacheChange(u, new)
    \/ \E u \in Uids : CacheDestroy(u)

SpecLinked == InitLinked /\ [][NextLinked]_vars

\* one channel through every kind of cache update, under enabled
\* configurations with and without LINKEDID_END and application tracking
ChanMasks == LinkedMasks \cup {DiffTypes}

InitChan ==
    InitWith(ConfigsOf({TRUE}, ChanMasks, {{}, {"dial"}}),
             <<[name |-> "b1", callback |-> "cb1"]>>)

NextChan ==
    \/ \E new \in ChanSnaps("1") : CacheCreate("1", new)
    \/ \E new \in ChanSnaps("1") : CacheChange("1", new)
    \/ CacheDestroy("1")

SpecChan == InitChan /\ [][NextChan]_vars

\* cache updates and dial messages for two channels that are not internal
DialSnaps(u) == Snaps(u, {"L1"}, {"DOWN"}, BOOLEAN, {""}, {FALSE})

DialCallers == {s \in MsgSnapshots : ~s.internal} \cup {NULL}

InitDial ==
    InitWith(ConfigsOf({TRUE}, {AllBits, {AST_CEL_HANGUP}}, {{}}),
             <<[name |-> "b1", callback |-> "cb1"]>>)

NextDial ==
    \/ \E u \in Uids : \E new \in DialSnaps(u) : CacheCreate(u, new)
    \/ \E u \in Uids : \E new \in DialSnaps(u) : CacheChange(u, new)
    \/ \E u \in Uids : CacheDestroy(u)
    \/ \E blob \in DialBlobs(DialCallers, {""}, DialStatuses) : Dial(blob)

SpecDial == InitDial /\ [][NextDial]_vars

\* the registry API and a handler that reports through it
BridgeBlobs(snaps) == [bridge : [uniqueid : BridgeIds], channel : snaps]

InitRegistry ==
    InitWith(ConfigsOf({TRUE}, {AllBits, {AST_CEL_BRIDGE_ENTER}}, {{}}), <<>>)

NextRegistry ==
    \/ \E name \in BackendNames, cb \in Callbacks : Register(name, cb)
    \/ \E name \in BackendNames : Unregister(name)
    \/ \E blob \in BridgeBlobs(MsgSnapshots) : BridgeEnter(blob)
    \/ \E blob \in BridgeBlobs(MsgSnapshots) : BridgeLeave(blob)

SpecRegistry == InitRegistry /\ [][NextRegistry]_vars

\* every message handler, for one channel that may be internal, with
\* configuration reloads in between
OneSnaps == Snaps("1", {"L1"}, States, BOOLEAN, {""}, BOOLEAN)

OneMsgSnaps == {s \in MsgSnapshots : s.uniqueid = "1"}

SpecMasks ==
    {AllBits, {AST_CEL_PARK_START, AST_CEL_HANGUP, AST_CEL_LINKEDID_END}, {}}

ParkPayloads ==
    [event_type : ParkEventTypes, parkee : OneMsgSnaps,
     parker_dial_string : {"X"}, parkinglot : {"default"}]

GenericBlobs ==
    [snapshot : OneMsgSnaps, event_type : {AST_CEL_USER_DEFINED, AST_CEL_ANSWER},
     event : {"evt"}, extra : {NULL}]

BlindBlobs ==
    [channel : OneMsgSnaps, bridge : [uniqueid : BridgeIds],
     result : {"SUCCESS", "FAIL"}, exten : {NULL, [str |-> "100"]},
     context : {[str |-> "default"]}]

\* dial messages that forward, that carry a dialstatus, or neither
OneDialBlobs ==
    {b \in DialBlobs(OneMsgSnaps \cup {NULL}, Forwards, {"", "BUSY"}) :
        b.forward = "" \/ b.dialstatus = ""}

Init ==
    InitWith(ConfigsOf(BOOLEAN, SpecMasks, {{}}),
             <<[name |-> "b1", callback |-> "cb1"]>>)

Next ==
    \/ \E new \in OneSnaps : CacheCreate("1", new)
    \/ \E new \in OneSnaps : CacheChange("1", new)
    \/ CacheDestroy("1")
    \/ \E blob \in OneDialBlobs : Dial(blob)
    \/ \E blob \in BridgeBlobs(OneMsgSnaps) : BridgeEnter(blob)
    \/ \E blob \in BridgeBlobs(OneMsgSnaps) : BridgeLeave(blob)
    \/ \E payload \in ParkPayloads : Parking(payload)
    \/ \E obj \in GenericBlobs : Generic(obj)
    \/ \E obj \in BlindBlobs : BlindTransfer(obj)
    \/ \E obj \in [channel : OneMsgSnaps \cup {NULL}, target : OneMsgSnaps \cup {NULL}] :
           Pickup(obj)
    \/ \E obj \in [one : OneMsgSnaps \cup {NULL}, two : OneMsgSnaps \cup {NULL}] :
           LocalOptimization(obj)
    \/ \E pending \in [enable : BOOLEAN, events : SpecMasks, apps : {{}, {"dial"}}] :
           Reload(pending)

Spec == Init /\ [][Next]_vars

\* one channel on one linkedid and the dial messages of that caller, with the
\* messages handled and the events delivered kept since Init
ScenarioSnaps == Snaps("1", {"L1"}, States, BOOLEAN, {""}, {FALSE})

ScenarioCallers == {s \in ScenarioSnaps : s.state = "UP" /\ ~s.dead}

InitScenario ==
    /\ InitCore(ConfigsOf({TRUE}, {AllBits, DiffTypes}, {{}}),
                <<[name |-> "b1", callback |-> "cb1"]>>)
    /\ hist = [on |-> TRUE, msgs |-> <<>>, delivered |-> <<>>]
    /\ threads = <<>>

NextScenario ==
    \/ \E new \in ScenarioSnaps : CacheCreate("1", new)
    \/ \E new \in ScenarioSnaps : CacheChange("1", new)
    \/ CacheDestroy("1")
    \/ \E blob \in DialBlobs(ScenarioCallers, {""}, {"BUSY"}) : Dial(blob)

SpecScenario == InitScenario /\ [][NextScenario]_vars

\* channel 1 is created by a handler that runs alone; then its destruction
\* and the creation of channel 2 run in parallel, statement by statement
InitRace ==
    /\ InitCore(ConfigsOf({TRUE}, {AllBits, {AST_CEL_LINKEDID_END}}, {{}}),
                <<[name |-> "b1", callback |-> "cb1"]>>)
    /\ hist = [on |-> FALSE]
    /\ threads = [retire |-> IdleFrame, acquire |-> IdleFrame]

NextRace ==
    \/ /\ threads.acquire.pc = "idle"
       /\ \E new \in LinkedSnaps("1") : CacheCreate("1", new)
    \/ RetireBegin("1")
    \/ RetireFind
    \/ RetireUnref
    \/ RetireRemove
    \/ RetireRelease
    \/ \E new \in LinkedSnaps("2") : AcquireBegin("2", new)
    \/ AcquireFind
    \/ AcquireLink
    \/ AcquireReport

SpecRace == InitRace /\ [][NextRace]_vars

\* two channels, each of an internal technology or not, that change linkedid
\* and hang up, and dial messages of callers that are not internal
InternalSnaps(u) == Snaps(u, LinkedIds, {"UP"}, BOOLEAN, {""}, BOOLEAN)

InitInternal ==
    InitWith(ConfigsOf({TRUE}, {AllBits}, {{}}), <<[name |-> "b1", callback |-> "cb1"]>>)

NextInternal ==
    \/ \E u \in Uids : \E new \in InternalSnaps(u) : CacheCreate(u, new)
    \/ \E u \in Uids : \E new \in InternalSnaps(u) : CacheChange(u, new)
    \/ \E u \in Uids : CacheDestroy(u)
    \/ \E blob \in DialBlobs({s \in MsgSnapshots : ~s.internal}, {""}, {"BUSY"}) : Dial(blob)

SpecInternal == InitInternal /\ [][NextInternal]_vars

\* dial messages of every kind: caller absent, internal or not, with and
\* without forward and dialstatus, under masks with and without FORWARD
DialMessages == DialBlobs(MsgSnapshots \cup {NULL}, Forwards, {"", "BUSY"})

InitDialMsg ==
    InitWith(ConfigsOf({TRUE}, {AllBits, {AST_CEL_HANGUP}}, {{}}),
             <<[name |-> "b1", callback |-> "cb1"]>>)

NextDialMsg == \E blob \in DialMessages : DialMessage(blob)

SpecDialMsg == InitDialMsg /\ [][NextDialMsg]_vars

\* two channels whose linkedid is empty or not, with and without an
\* application, under masks with and without LINKEDID_END and CHANNEL_START
EmptySnaps(u) == Snaps(u, {"", "L1"}, {"UP"}, {FALSE}, {"", "Dial"}, {FALSE})

EmptyMasks ==
    {AllBits, {AST_CEL_LINKEDID_END}, AllBits \ {AST_CEL_LINKEDID_END},
     {AST_CEL_LINKEDID_END, AST_CEL_APP_START}}

InitEmpty ==
    InitWith(ConfigsOf(BOOLEAN, EmptyMasks, {{"dial"}}),
             <<[name |-> "b1", callback |-> "cb1"]>>)

NextEmpty ==
    \/ \E u \in Uids : \E new \in EmptySnaps(u) : CacheCreate(u, new)
    \/ \E u \in Uids : \E new \in EmptySnaps(u) : CacheChange(u, new)
    \/ \E u \in Uids : CacheDestroy(u)

SpecEmpty == InitEmpty /\ [][NextEmpty]_vars

\* two channels that share and change linkedids while reloads switch enable
\* and the LINKEDID_END bit on and off
ToggleSnaps(u) == Snaps(u, LinkedIds, {"UP"}, {FALSE}, {""}, {FALSE})

ToggleConfigs ==
    ConfigsOf(BOOLEAN, {AllBits, AllBits \ {AST_CEL_LINKEDID_END}}, {{}})

InitToggle ==
    InitWith(ToggleConfigs, <<[name |-> "b1", callback |-> "cb1"]>>)

NextToggle ==
    \/ \E u \in Uids : \E new \in ToggleSnaps(u) : CacheCreate(u, new)
    \/ \E u \in Uids : \E new \in ToggleSnaps(u) : CacheChange(u, new)
    \/ \E u \in Uids : CacheDestroy(u)
    \/ \E pending \in ToggleConfigs : Reload(pending)

SpecToggle == InitToggle /\ [][NextToggle]_vars

\* two callers are dialled and one of them hangs up while CEL is enabled or
\* not and HANGUP is in the mask or not, and reloads switch between these
StoreConfigs ==
    ConfigsOf(BOOLEAN, {AllBits, AllBits \ {AST_CEL_HANGUP}}, {{}})

StoreMessages ==
    DialBlobs({s \in MsgSnapshots : ~s.internal}, {""}, {"", "BUSY"})

InitStore ==
    InitWith(StoreConfigs, <<[name |-> "b1", callback |-> "cb1"]>>)

NextStore ==
    \/ \E new \in DialSnaps("1") : CacheCreate("1", new)
    \/ \E new \in DialSnaps("1") : CacheChange("1", new)
    \/ CacheDestroy("1")
    \/ \E blob \in StoreMessages : DialMessage(blob)
    \/ \E pending \in StoreConfigs : Reload(pending)

SpecStore == InitStore /\ [][NextStore]_vars

\* snapshots with every field an event carries; the strings are empty or not
RecordSnaps ==
    [caller_name : {"", "Alice"}, caller_number : {"100"}, caller_ani : {""},
     caller_rdnis : {""}, caller_dnid : {""}, exten : {"s"}, context : {"default"},
     name : {"1"}, appl : {"", "Dial"}, data : {""}, amaflags : {0, 3},
     accountcode : {"", "acct"}, peeraccount : {"", "peer"},
     uniqueid : {"1"}, linkedid : {"L1"}, userfield : {""}]

EventTimes == {[tv_sec |-> 0, tv_usec |-> 0], [tv_sec |-> 1700000000, tv_usec |-> 5]}

InitRecord ==
    InitWith(ConfigsOf({TRUE}, {AllBits}, {{}}), <<[name |-> "b1", callback |-> "cb1"]>>)

NextRecord ==
    \E snapshot \in RecordSnaps, event_type \in {AST_CEL_HANGUP, AST_CEL_USER_DEFINED},
       userdefevname \in {"", "evt"}, eventtime \in EventTimes,
       version \in {AST_CEL_EVENT_RECORD_VERSION, 2} :
        FillRecord(snapshot, event_type, userdefevname, eventtime, version)

SpecRecord == InitRecord /\ [][NextRecord]_vars

\* attended transfers between channel 1 (transferee side) and channel 2
\* (target side), each side with or without a bridge
XferSides(u, b) ==
    [bridge_snapshot : {NULL, [uniqueid |-> b]},
     channel_snapshot : {s \in MsgSnapshots : s.uniqueid = u}]

XferMessages ==
    [to_transferee : XferSides("1", "B1"), to_transfer_target : XferSides("2", "B2"),
     dest_type : {"FAIL", "BRIDGE_MERGE", "LINK", "THREEWAY", "APP"},
     app : {"app"}]

InitTransfer ==
    InitWith(ConfigsOf({TRUE}, {AllBits, {AST_CEL_ATTENDEDTRANSFER}, {AST_CEL_HANGUP}}, {{}}),
             <<[name |-> "b1", callback |-> "cb1"]>>)

NextTransfer ==
    \E xfer \in XferMessages, ub \in NullReads : AttendedTransfer(xfer, ub)

SpecTransfer == InitTransfer /\ [][NextTransfer]_vars

\* one channel that enters and leaves applications, with and without a list
\* of tracked applications
AppSnaps == Snaps("1", {"L1"}, {"UP"}, BOOLEAN, Appls, {FALSE})

AppMasks == {{AST_CEL_APP_START, AST_CEL_APP_END}, AllBits}

InitApps ==
    InitWith(ConfigsOf({TRUE}, AppMasks, {{}, {"dial"}}),
             <<[name |-> "b1", callback |-> "cb1"]>>)

NextApps ==
    \/ \E new \in AppSnaps : CacheCreate("1", new)
    \/ \E new \in AppSnaps : CacheChange("1", new)
    \/ CacheDestroy("1")

SpecApps == InitApps /\ [][NextApps]_vars

\* the messages of one channel, handled while the engine is subscribed, and
\* the shutdown of the engine
InitTerm ==
    /\ InitCore(ConfigsOf({TRUE}, {AllBits}, {{}}),
                <<[name |-> "b1", callback |-> "cb1"]>>)
    /\ hist = [on |-> TRUE, msgs |-> <<>>, delivered |-> <<>>]
    /\ threads = <<>>

NextTerm ==
    \/ Subscribed /\ \E new \in ScenarioSnaps : CacheCreate("1", new)
    \/ Subscribed /\ \E new \in ScenarioSnaps : CacheChange("1", new)
    \/ Subscribed /\ CacheDestroy("1")
    \/ Subscribed /\ \E blob \in DialBlobs(ScenarioCallers, {""}, {"BUSY"}) : Dial(blob)
    \/ TermRelease
    \/ TermJoin

SpecTerm == InitTerm /\ [][NextTerm]_vars

\* a fan-out runs callback by callback while backends register and unregister
InitFanout ==
    /\ InitCore(ConfigsOf({TRUE}, {AllBits}, {{}}), <<>>)
    /\ hist = [on |-> FALSE]
    /\ threads = [fanout |-> FanoutIdle]

NextFanout ==
    \/ \E name \in BackendNames, cb \in Callbacks : ApiRegister(name, cb)
    \/ \E name \in BackendNames : ApiUnregister(name)
    \/ \E blob \in BridgeBlobs(OneMsgSnaps) : FanoutBegin(blob)
    \/ FanoutCallback

SpecFanout == InitFanout /\ [][NextFanout]_vars

\* the configuration file is loaded again and again; a handler reports in between

\* fields of the events option, as strsep cuts them at the commas
EventFields == {"ALL", "hangup", " APP_END ", "Bogus", ""}

\* fields per option value
MaxFields == 2

\* the option values of at most n fields
FieldSeqs(fields, n) == UNION {[1 .. k -> fields] : k \in 0 .. n}

EventsValues == FieldSeqs(EventFields, MaxFields)

AppsValues == {<<>>, <<" Dial", "">>}

InitConfig ==
    InitWith(ConfigsOf({TRUE}, {AllBits}, {{}}),
             <<[name |-> "b1", callback |-> "cb1"]>>)

NextConfig ==
    \/ \E events \in EventsValues, apps \in AppsValues :
           ProcessConfig(TRUE, events, apps)
    \/ \E blob \in BridgeBlobs(OneMsgSnaps) : BridgeEnter(blob)

SpecConfig == InitConfig /\ [][NextConfig]_vars

\* reports of the router's thread run statement by statement while the
\* configuration is reloaded and set from other threads
ReloadSnaps == Snaps("1", {"L1"}, {"UP"}, {FALSE}, {"", "Dial"}, {FALSE})

SetConfigs ==
    {NULL, [enable |-> TRUE, events |-> {AST_CEL_HANGUP}, apps |-> {}]}

\* enable, events and apps of the files loaded meanwhile
ReloadFiles ==
    {<<TRUE, <<"ALL">>, <<" Dial", "">> >>,
     <<FALSE, <<"ALL">>, <<>> >>,
     <<TRUE, <<"hangup">>, <<>> >>}

InitReload ==
    /\ InitCore(ConfigsOf(BOOLEAN, {AllBits}, {{}}),
                <<[name |-> "b1", callback |-> "cb1"]>>)
    /\ hist = [on |-> FALSE]
    /\ threads = [report |-> ReportIdle]

NextReload ==
    \/ \E blob \in BridgeBlobs(OneMsgSnaps) : DispatchBridgeEnter(blob)
    \/ \E new \in ReloadSnaps : DispatchCreate("1", new)
    \/ ReportEnter
    \/ ReportLinked
    \/ ReportMask
    \/ ReportApp
    \/ \E file \in ReloadFiles : ProcessConfig(file[1], file[2], file[3])
    \/ \E config \in SetConfigs : SetConfig(config)

SpecReload == InitReload /\ [][NextReload]_vars

-----------------------------------------------------------------------------
(* Properties of the linked-id tracker *)

\* live channels that are not internal and carry linkedid L
Carrying(L) ==
    {u \in Uids : channels[u] # NULL /\ ~channels[u].internal
                  /\ channels[u].linkedid = L}

\* references on L beyond the container's own
Acquisitions(L) ==
    IF L \in DOMAIN linkedids THEN linkedids[L] - 1 ELSE 0

\* positions in `out` of the LINKEDID_END events for L
EndsOf(L) ==
    {i \in 1 .. Len(out) :
        out[i].event_type = AST_CEL_LINKEDID_END /\ out[i].linkedid = L}

\* the last handler was the retirement check of the last live channel
\* carrying L: that channel was destroyed or moved to another linkedid
Retires(L) ==
    /\ last.op = "cache_update"
    /\ last.old # NULL
    /\ ~last.old.internal
    /\ last.old.linkedid = L
    /\ (last.new = NULL \/ last.new.linkedid # L)
    /\ Carrying(L) = {}

\* C1: with CEL enabled and LINKEDID_END tracked, a handler emits
\* LINKEDID_END for L exactly when it is the retirement check of the last
\* live channel carrying L; it emits it once, from that channel's old
\* snapshot, and delivers it; no LINKEDID_END for L while a live channel
\* still carries L.
C1_LinkedIdEndOnLastRetire ==
    \A L \in LinkedIds :
        IF Retires(L)
        THEN /\ Cardinality(EndsOf(L)) = 1
             /\ \A i \in EndsOf(L) :
                    /\ out[i].uniqueid = last.old.uniqueid
                    /\ \E k \in 1 .. Len(calls) : calls[k].ev = out[i]
        ELSE EndsOf(L) = {}

\* a linkedid change retires L while the other channel lives on another linkedid
C1_Witness ==
    \E L \in LinkedIds :
        /\ Retires(L)
        /\ last.new # NULL
        /\ EndsOf(L) # {}
        /\ \E u \in Uids : channels[u] # NULL /\ u # last.old.uniqueid

\* C2: after every cache-update handler, for every linkedid L the
\* acquisitions held in the tracker equal the number of live non-internal
\* channels carrying L, and L has an entry iff that number is at least one.
C2_AcquisitionsMatchCarriers ==
    \A L \in LinkedIds :
        /\ Acquisitions(L) = Cardinality(Carrying(L))
        /\ (L \in DOMAIN linkedids) <=> (Carrying(L) # {})

\* two live channels share a linkedid after one of them changed to it
C2_Witness ==
    /\ last.op = "cache_update"
    /\ last.old # NULL /\ last.new # NULL
    /\ last.old.linkedid # last.new.linkedid
    /\ Cardinality(Carrying(last.new.linkedid)) = 2
    /\ Acquisitions(last.new.linkedid) = 2

-----------------------------------------------------------------------------
(* Properties of the channel-diff event order *)

RECURSIVE PatternPhase(_, _)
\* the position reached in CHANNEL_START, (APP_START, APP_END)*, ANSWER?,
\* HANGUP, CHANNEL_END after reading log from position ph, every element
\* optional; -1 when log does not fit the pattern
PatternPhase(log, ph) ==
    IF log = <<>> \/ ph = -1 THEN ph
    ELSE LET e == Head(log)
             nxt == CASE e = AST_CEL_CHANNEL_START -> IF ph = 0 THEN 1 ELSE -1
                      [] e \in {AST_CEL_APP_START, AST_CEL_APP_END} ->
                             IF ph <= 1 THEN 1 ELSE -1
                      [] e = AST_CEL_ANSWER -> IF ph <= 1 THEN 2 ELSE -1
                      [] e = AST_CEL_HANGUP -> IF ph <= 2 THEN 3 ELSE -1
                      [] e = AST_CEL_CHANNEL_END -> IF ph <= 3 THEN 4 ELSE -1
         IN  PatternPhase(Tail(log), nxt)

C10_LinkedIdEndOnly ==
    (cel_configs.enable /\ cel_configs.events = {AST_CEL_LINKEDID_END}) =>
        /\ \A i \in 1 .. Len(out) : out[i].event_type = AST_CEL_LINKEDID_END
        /\ \A u \in Uids : chanlog[u] = <<>>
        /\ (last.op = "cache_update" /\ last.old = NULL) =>
              /\ out = <<>>
              /\ Acquisitions(last.new.linkedid) = 1
        /\ (last.op = "cache_update" /\ last.old # NULL /\ last.new # NULL
               /\ last.old.linkedid = last.new.linkedid) => out = <<>>
        /\ (last.op = "cache_update" /\ last.new = NULL) =>
              /\ Len(out) = 1
              /\ out[1].linkedid = last.old.linkedid
              /\ out[1].uniqueid = last.old.uniqueid
              /\ Len(calls) = 1 /\ calls[1].ev = out[1]
              /\ linkedids = <<>>

\* the channel was destroyed under events = {LINKEDID_END}
C10_Witness ==
    /\ cel_configs.events = {AST_CEL_LINKEDID_END}
    /\ last.op = "cache_update" /\ last.new = NULL
    /\ Len(out) = 1 /\ out[1].event_type = AST_CEL_LINKEDID_END

-----------------------------------------------------------------------------
(* Properties of the dial-status store *)

\* positions in `out` of the HANGUP events
HangupsOf(u) ==
    {i \in 1 .. Len(out) :
        out[i].event_type = AST_CEL_HANGUP /\ out[i].uniqueid = u}

\* the last handler processed a hangup transition
HangupProcessed ==
    last.op = "cache_update" /\ IsHangup(last.old, last.new)

\* C4 as stated: the HANGUP of a hangup transition carries the dialstatus of
\* the most recent dial message received for that caller ("" if none), for
\* any number of dial messages received before the hangup.
C4_Original ==
    HangupProcessed =>
        \A i \in HangupsOf(last.new.uniqueid) :
            out[i].extra.dialstatus = last.dialed

\* C5 as stated: once the hangup transition of U is processed the store
\* holds no entry keyed by U, however many dial messages came before.
C5_Original ==
    HangupProcessed =>
        Matching(cel_dialstatus_store, last.new.uniqueid) = {}

-----------------------------------------------------------------------------
(* Properties of the backend registry *)

Registered(name) ==
    \E i \in 1 .. Len(cel_backends) : cel_backends[i].name = name

\* the callback invocations of the last handler for backend `name` and event ev
CallsTo(name, ev) ==
    {k \in 1 .. Len(calls) : calls[k].name = name /\ calls[k].ev = ev}

\* C6 as stated: every event that passes the filter invokes the callback of
\* every registered backend exactly once and of no other backend.
C6_Original ==
    \A i \in 1 .. Len(out) :
        \A name \in BackendNames :
            Cardinality(CallsTo(name, out[i])) = IF Registered(name) THEN 1 ELSE 0

\* C7 as stated: the registry never holds two entries with one name, and a
\* register call with a registered name fails and leaves the registry as it was.
C7_Original ==
    /\ \A i, j \in 1 .. Len(cel_backends) :
          cel_backends[i].name = cel_backends[j].name => i = j
    /\ (last.op = "register"
          /\ \E i \in 1 .. Len(last.before) : last.before[i].name = last.name)
         => (last.rc = -1 /\ cel_backends = last.before)

-----------------------------------------------------------------------------
(* Properties of the filters *)

\* the message was about a channel snapshot with the INTERNAL flag
InternalMsg(msg) ==
    IF msg.op = "cache_update"
    THEN cel_filter_channel_snapshot(msg.old) \/ cel_filter_channel_snapshot(msg.new)
    ELSE /\ msg.op \in {"dial", "bridge_enter", "bridge_leave", "parking",
                        "generic", "blind_transfer", "pickup", "local"}
         /\ cel_filter_channel_snapshot(msg.snapshot)

\* C8 as stated: a handler given a snapshot with the INTERNAL flag delivers
\* nothing and leaves the linked-id tracker as it was.
C8_Original ==
    [][InternalMsg(last') => (calls' = <<>> /\ linkedids' = linkedids)]_vars

-----------------------------------------------------------------------------
(* End-to-end scenarios *)

\* the messages handled since Init are the four cache updates of scenario S1
\* for the snapshots A (DOWN), A1 (UP) and A2 (DEAD)
S1Handled(A, A1, A2) ==
    /\ A.state = "DOWN" /\ ~A.dead
    /\ A1.state = "UP" /\ ~A1.dead
    /\ A2.dead
    /\ Len(hist.msgs) = 4
    /\ \A i \in 1 .. 4 : hist.msgs[i].op = "cache_update"
    /\ hist.msgs[1].old = NULL /\ hist.msgs[1].new = A
    /\ hist.msgs[2].old = A /\ hist.msgs[2].new = A1
    /\ hist.msgs[3].old = A1 /\ hist.msgs[3].new = A2
    /\ hist.msgs[4].old = A2 /\ hist.msgs[4].new = NULL

\* C11: with all events enabled and no application tracked, the updates
\* (nil -> A DOWN), (A -> A1 UP), (A1 -> A2 DEAD), (A2 -> nil) of the channel
\* with uniqueid 1 and linkedid L deliver exactly CHANNEL_START(1), ANSWER(1),
\* HANGUP(1, dialstatus ""), CHANNEL_END(1), LINKEDID_END(L), in that order,
\* and leave the linked-id tracker and the dial-status store empty.
C11_ScenarioS1 ==
    \A A, A1, A2 \in ScenarioSnaps :
        (/\ S1Handled(A, A1, A2)
         /\ cel_configs.enable
         /\ cel_configs.events = AllBits
         /\ cel_configs.apps = {})
        => /\ [i \in 1 .. Len(hist.delivered) |-> hist.delivered[i].event_type]
                = <<AST_CEL_CHANNEL_START, AST_CEL_ANSWER, AST_CEL_HANGUP,
                    AST_CEL_CHANNEL_END, AST_CEL_LINKEDID_END>>
           /\ \A i \in 1 .. Len(hist.delivered) :
                  /\ hist.delivered[i].uniqueid = "1"
                  /\ hist.delivered[i].linkedid = A.linkedid
           /\ hist.delivered[3].extra =
                  [hangupcause |-> A2.hangupcause,
                   hangupsource |-> A2.hangupsource, dialstatus |-> ""]
           /\ linkedids = <<>>
           /\ cel_dialstatus_store = <<>>

\* scenario S1 was run to its end under the all-events configuration
C11_Witness ==
    /\ cel_configs.events = AllBits
    /\ \E A, A1, A2 \in ScenarioSnaps : S1Handled(A, A1, A2)
    /\ Len(hist.delivered) = 5

-----------------------------------------------------------------------------
(* Properties under parallel dispatch *)

\* cel_linkedid_ref returned 0 for linkedid L on behalf of channel 2, which lives
Acquired(L) ==
    /\ threads.acquire.pc \in {"report", "done"}
    /\ channels["2"] # NULL
    /\ channels["2"].linkedid = L

C13_Original ==
    /\ Cardinality(threads.report.seen) <= 1
    /\ threads.report.held # NoRef =>
           HeldView(threads.report) = threads.report.entry

-----------------------------------------------------------------------------
(* Registry operations *)

\* C19: registering a non-empty name into the empty registry succeeds, and
\* unregistering that name right after succeeds and leaves the registry empty.
C19_RegisterThenUnregister ==
    [][/\ (last'.op = "register" /\ last'.before = <<>> /\ last'.name # "") =>
             (last'.rc = 0 /\ Len(cel_backends') = 1)
       /\ (/\ last.op = "register" /\ last.before = <<>> /\ last.rc = 0
           /\ last'.op = "unregister" /\ last'.name = last.name) =>
             (last'.rc = 0 /\ cel_backends' = <<>>)]_vars

\* the one backend of the registry was unregistered
C19_Witness ==
    /\ last.op = "unregister"
    /\ last.rc = 0
    /\ Len(last.before) = 1
    /\ last.before[1].name = last.name
    /\ cel_backends = <<>>

\* an entry of the container `backends` has this name
NamedIn(backends, name) == \E i \in 1 .. Len(backends) : backends[i].name = name

\* C20: unregistering a name that is not registered fails and removes
\* nothing; registering the empty name fails and inserts nothing.
C20_FailedOperationsChangeNothing ==
    /\ (last.op = "unregister" /\ ~NamedIn(last.before, last.name)) =>
          (last.rc = -1 /\ cel_backends = last.before)
    /\ (last.op = "register" /\ last.name = "") =>
          (last.rc = -1 /\ cel_backends = last.before)

\* a name that is not registered was unregistered from a registry that holds
\* another backend
C20_Witness ==
    /\ last.op = "unregister"
    /\ last.name # ""
    /\ last.rc = -1
    /\ last.before # <<>>
    /\ cel_backends = last.before

-----------------------------------------------------------------------------
(* Loading the configuration *)

\* the pending configuration names applications but neither application event
AppsWithoutAppEvents(pending) ==
    /\ pending.apps # {}
    /\ AST_CEL_APP_START \notin pending.events
    /\ AST_CEL_APP_END \notin pending.events

\* C17: a load whose pending configuration has a non-empty apps set and
\* neither APP_START nor APP_END in its mask fails and leaves the published
\* configuration as it was; a pending configuration with empty apps, or with
\* one of the two bits, passes and is published.
C17_AppsNeedAnAppEvent ==
    [][(last'.op = "process_config" /\ last'.pending # NULL) =>
          IF AppsWithoutAppEvents(last'.pending)
          THEN last'.rc = -1 /\ cel_configs' = cel_configs
          ELSE last'.rc = 0 /\ cel_configs' = last'.pending]_vars

\* a load with apps = Dial and events = hangup was rejected and the
\* configuration published before is still the one in effect
C17_Witness ==
    /\ last.op = "process_config"
    /\ last.rc = -1
    /\ last.pending # NULL
    /\ last.pending.apps = {"dial"}
    /\ last.pending.events = {AST_CEL_HANGUP}
    /\ cel_configs # last.pending

\* the names in the fields of an events value: stripped, the empty ones dropped
NamesIn(fields) == {ast_strip(fields[k]) : k \in DOMAIN fields} \ {""}

\* C18: when every name of the events value is recognized, the mask is
\* all-ones if ALL is among them and otherwise has exactly the bits of the
\* names' event codes; a name that is not recognized makes the load fail and
\* the published configuration stays.
C18_EventsParsing ==
    [][last'.op = "process_config" =>
          LET names == NamesIn(last'.events)
              codes == {ast_cel_str_to_event_type(n) : n \in names}
          IN  IF -1 \in codes
              THEN /\ last'.rc = -1
                   /\ last'.pending = NULL
                   /\ cel_configs' = cel_configs
              ELSE /\ last'.pending # NULL
                   /\ last'.pending.events =
                          IF 0 \in codes THEN AllBits ELSE codes]_vars

\* two recognized names were parsed and the mask has their two bits
C18_Witness ==
    /\ last.op = "process_config"
    /\ last.rc = 0
    /\ last.pending.events = {AST_CEL_HANGUP, AST_CEL_APP_END}

\* the name differs from every name of the array, from one of them only in
\* the case of its letters
CaseVariant(name) ==
    /\ \A i \in DOMAIN cel_event_types : name # cel_event_types[i]
    /\ \E i \in DOMAIN cel_event_types : FoldCase(name) = FoldCase(cel_event_types[i])

\* C24: a name in the events value that differs from a recognized name only
\* in letter case is unknown: the load fails.
C24_Original ==
    (last.op = "process_config" /\ \E n \in NamesIn(last.events) : CaseVariant(n)) =>
        last.rc = -1

-----------------------------------------------------------------------------
(* Application tracking *)

\* the last message was a cache update that took a live channel from no
\* application into appl, under events = {APP_START, APP_END}, apps = {dial}
EntersApp(appl) ==
    /\ last.op = "cache_update"
    /\ last.old # NULL /\ last.new # NULL
    /\ last.old.appl = "" /\ last.new.appl = appl
    /\ cel_configs.events = {AST_CEL_APP_START, AST_CEL_APP_END}
    /\ cel_configs.apps = {"dial"}

\* C16: APP_START and APP_END are delivered only for an application whose
\* lowercased name is in apps; with events = {APP_START, APP_END} and
\* apps = {dial}, a change of appl from "" to "Queue" delivers nothing and a
\* change from "" to "Dial" delivers one APP_START.
C16_AppEventsOnlyForTrackedApps ==
    /\ \A k \in 1 .. Len(calls) :
          calls[k].ev.event_type \in {AST_CEL_APP_START, AST_CEL_APP_END} =>
              ast_str_to_lower(calls[k].ev.appl) \in cel_configs.apps
    /\ EntersApp("Queue") => calls = <<>>
    /\ EntersApp("Dial") =>
          /\ Len(calls) = 1
          /\ calls[1].ev.event_type = AST_CEL_APP_START
          /\ calls[1].ev.appl = "Dial"

\* the channel entered Dial and APP_START was delivered for it
C16_Witness ==
    /\ EntersApp("Dial")
    /\ calls # <<>>
    /\ calls[1].ev.event_type = AST_CEL_APP_START

-----------------------------------------------------------------------------
(* Engine shutdown *)

\* C15: once ast_cel_engine_term has returned no handler is invoked any more,
\* and the teardown delivers no event: the linkedid and dial-status entries
\* that are still pending are dropped without a LINKEDID_END or any other
\* event being synthesized for them.
C15_TermSilent ==
    [][engine' = "terminated" =>
          /\ hist'.msgs = hist.msgs
          /\ hist'.delivered = hist.delivered
          /\ out' = <<>> /\ calls' = <<>>
          /\ linkedids' = <<>> /\ cel_dialstatus_store' = <<>>]_vars

\* the engine was shut down while a linkedid and a dial status were pending
C15_Witness ==
    /\ engine = "terminated"
    /\ last.op = "term"
    /\ DOMAIN last.linkedids # {}
    /\ last.store # <<>>
    /\ hist.msgs # <<>>

-----------------------------------------------------------------------------
(* One cache update *)

\* the monitor an event type is reported by: 1 application change, 2 state
\* change, 3 the retirement of a linkedid
MonitorOf(et) ==
    IF et \in {AST_CEL_APP_START, AST_CEL_APP_END} THEN 1
    ELSE IF et = AST_CEL_LINKEDID_END THEN 3
    ELSE 2

\* the last message was a cache update of a channel whose old snapshot is in
\* an application that is tracked, with APP_END in the mask
LeftTrackedApp ==
    /\ last.op = "cache_update"
    /\ last.old # NULL
    /\ last.old.appl # ""
    /\ ast_str_to_lower(last.old.appl) \in cel_configs.apps
    /\ AST_CEL_APP_END \in cel_configs.events
    /\ last.new # NULL => last.new.appl # last.old.appl

\* in the callbacks of the last message an event of type a comes before one
\* of type b
DeliveredBefore(a, b) ==
    \E i, j \in 1 .. Len(calls) :
        i < j /\ calls[i].ev.event_type = a /\ calls[j].ev.event_type = b

\* C25: the events of one cache update are delivered in the order of the
\* monitors (application change, state change, linkedid); an update that
\* leaves a tracked application and sets DEAD delivers APP_END before HANGUP,
\* and one that destroys a channel in a tracked application delivers APP_END
\* before CHANNEL_END.
C25_MonitorOrder ==
    /\ last.op = "cache_update" =>
          \A i, j \in 1 .. Len(calls) :
              i < j => MonitorOf(calls[i].ev.event_type) <= MonitorOf(calls[j].ev.event_type)
    /\ (/\ LeftTrackedApp /\ last.new # NULL
        /\ ~last.old.dead /\ last.new.dead
        /\ AST_CEL_HANGUP \in cel_configs.events) =>
            DeliveredBefore(AST_CEL_APP_END, AST_CEL_HANGUP)
    /\ (/\ LeftTrackedApp /\ last.new = NULL
        /\ AST_CEL_CHANNEL_END \in cel_configs.events) =>
            DeliveredBefore(AST_CEL_APP_END, AST_CEL_CHANNEL_END)

\* one update took the channel out of Dial and set DEAD, and APP_END and
\* HANGUP were both delivered
C25_Witness ==
    /\ LeftTrackedApp /\ last.new # NULL
    /\ ~last.old.dead /\ last.new.dead
    /\ DeliveredBefore(AST_CEL_APP_END, AST_CEL_HANGUP)

\* an event of type et was delivered for the last message
Delivered(et) == \E k \in 1 .. Len(calls) : calls[k].ev.event_type = et

\* the event types the state-change monitor delivered for the last message
StateEvents ==
    {calls[k].ev.event_type : k \in 1 .. Len(calls)}
        \cap {AST_CEL_CHANNEL_START, AST_CEL_CHANNEL_END, AST_CEL_ANSWER, AST_CEL_HANGUP}

\* the update of the last message takes the channel from not DEAD to DEAD
HangupTransition == ~last.old.dead /\ last.new.dead

\* C26: for a cache update, of the state events only these are delivered, each
\* when its bit is in the mask: with both snapshots HANGUP iff old is not DEAD
\* and new is DEAD, ANSWER iff there is no such transition and the state
\* changed to UP, never both; with no old snapshot CHANNEL_START; with no new
\* snapshot CHANNEL_END, after which the linkedid of the channel is retired.
C26_StateChange ==
    last.op = "cache_update" =>
        IF last.new = NULL
        THEN /\ StateEvents \subseteq {AST_CEL_CHANNEL_END}
             /\ Delivered(AST_CEL_CHANNEL_END) <=> AST_CEL_CHANNEL_END \in cel_configs.events
             /\ AST_CEL_LINKEDID_END \in cel_configs.events =>
                    /\ last.old.linkedid \notin DOMAIN linkedids
                    /\ Delivered(AST_CEL_CHANNEL_END) =>
                           DeliveredBefore(AST_CEL_CHANNEL_END, AST_CEL_LINKEDID_END)
        ELSE IF last.old = NULL
        THEN /\ StateEvents \subseteq {AST_CEL_CHANNEL_START}
             /\ Delivered(AST_CEL_CHANNEL_START) <=> AST_CEL_CHANNEL_START \in cel_configs.events
        ELSE /\ StateEvents \subseteq {AST_CEL_HANGUP, AST_CEL_ANSWER}
             /\ Cardinality(StateEvents) <= 1
             /\ Delivered(AST_CEL_HANGUP) <=>
                    (HangupTransition /\ AST_CEL_HANGUP \in cel_configs.events)
             /\ Delivered(AST_CEL_ANSWER) <=>
                    /\ ~HangupTransition
                    /\ last.old.state # last.new.state /\ last.new.state = "UP"
                    /\ AST_CEL_ANSWER \in cel_configs.events

\* one update answered the channel and hung it up: HANGUP was delivered and
\* ANSWER was not
C26_Witness ==
    /\ last.op = "cache_update"
    /\ last.old # NULL /\ last.new # NULL
    /\ HangupTransition
    /\ last.old.state = "DOWN" /\ last.new.state = "UP"
    /\ AST_CEL_ANSWER \in cel_configs.events
    /\ Delivered(AST_CEL_HANGUP)

\* the channel references the tracker `lids` holds on L
Refs(lids, L) == IF L \in DOMAIN lids THEN lids[L] - 1 ELSE 0

\* the LINKEDID_END events among the callbacks `cs`, as <<linkedid, uniqueid>>
LinkedIdEnds(cs) ==
    {<<cs[k].ev.linkedid, cs[k].ev.uniqueid>> :
        k \in {i \in 1 .. Len(cs) : cs[i].ev.event_type = AST_CEL_LINKEDID_END}}

\* C27: with CEL enabled and LINKEDID_END tracked, a cache update that moves
\* a channel from linkedid L1 to L2 adds one reference on L2 and drops one on
\* L1, and delivers LINKEDID_END for L1, from the old snapshot, iff no other
\* live channel carries L1; an update that keeps the linkedid leaves the
\* tracker unchanged; the destruction of the channel retires the linkedid
\* of its last snapshot and no other.
C27_LinkedIdChange ==
    [][last'.op = "cache_update" /\ last'.old # NULL =>
          LET L1 == last'.old.linkedid
              u == last'.old.uniqueid
              others == {v \in Uids \ {u} :
                            channels'[v] # NULL /\ channels'[v].linkedid = L1}
              ends == LinkedIdEnds(calls')
          IN  IF last'.new = NULL
              THEN /\ Refs(linkedids', L1) = Refs(linkedids, L1) - 1
                   /\ \A L \in LinkedIds \ {L1} : Refs(linkedids', L) = Refs(linkedids, L)
                   /\ ends \subseteq {<<L1, u>>}
              ELSE IF last'.new.linkedid = L1
              THEN linkedids' = linkedids /\ ends = {}
              ELSE /\ Refs(linkedids', last'.new.linkedid)
                          = Refs(linkedids, last'.new.linkedid) + 1
                   /\ Refs(linkedids', L1) = Refs(linkedids, L1) - 1
                   /\ ends = IF others = {} THEN {<<L1, u>>} ELSE {}
                   /\ others = {} <=> L1 \notin DOMAIN linkedids']_vars

\* channel 1 moved from L1 to L2 while channel 2 was on L2: LINKEDID_END for
\* L1 was delivered and L2 has two references
C27_Witness ==
    /\ last.op = "cache_update"
    /\ last.old # NULL /\ last.new # NULL
    /\ last.old.linkedid = "L1" /\ last.new.linkedid = "L2"
    /\ LinkedIdEnds(calls) = {<<"L1", last.old.uniqueid>>}
    /\ Refs(linkedids, "L2") = 2
    /\ "L1" \notin DOMAIN linkedids

\* C28: a cache update whose old or new snapshot has the INTERNAL flag runs no
\* monitor: no event is built or delivered, and the linked-id tracker and the
\* dial-status store are as they were.
C28_InternalUpdateIgnored ==
    [][(/\ last'.op = "cache_update"
        /\ (cel_filter_channel_snapshot(last'.old)
              \/ cel_filter_channel_snapshot(last'.new))) =>
          /\ out' = <<>>
          /\ calls' = <<>>
          /\ linkedids' = linkedids
          /\ cel_dialstatus_store' = cel_dialstatus_store]_vars

\* an internal channel was destroyed while the tracker and the store held
\* entries of another channel
C28_Witness ==
    /\ last.op = "cache_update"
    /\ cel_filter_channel_snapshot(last.old)
    /\ last.new = NULL
    /\ calls = <<>>
    /\ DOMAIN linkedids # {}
    /\ cel_dialstatus_store # <<>>

-----------------------------------------------------------------------------
(* Dial handler and dial-status store *)

\* C29: the dial-status store holds at most one entry per caller uniqueid.
C29_Original ==
    \A u \in Uids : Cardinality(Matching(cel_dialstatus_store, u)) <= 1

\* C30: a dial message whose caller is absent or internal changes nothing and
\* delivers nothing; any other stores the message iff its dialstatus is not
\* empty and, independently, reports FORWARD from the caller iff its forward
\* is not empty (delivered when FORWARD is in the mask).
C30_DialHandler ==
    [][(last'.op = "dial" /\ "dialstatus" \in DOMAIN last') =>
          LET caller == last'.snapshot
              blob == [caller |-> caller, forward |-> last'.forward,
                       dialstatus |-> last'.dialstatus]
          IN  IF caller = NULL \/ cel_filter_channel_snapshot(caller)
              THEN /\ out' = <<>> /\ calls' = <<>>
                   /\ cel_dialstatus_store' = cel_dialstatus_store
              ELSE /\ cel_dialstatus_store' =
                          IF blob.dialstatus # ""
                          THEN Append(cel_dialstatus_store, blob)
                          ELSE cel_dialstatus_store
                   /\ Len(calls') = Len(out')
                   /\ IF blob.forward # "" /\ AST_CEL_FORWARD \in cel_configs.events
                      THEN /\ Len(out') = 1
                           /\ out'[1].event_type = AST_CEL_FORWARD
                           /\ out'[1].uniqueid = caller.uniqueid
                           /\ out'[1].extra = [forward |-> blob.forward]
                           /\ calls'[1].ev = out'[1]
                      ELSE out' = <<>>]_vars

\* a message with both forward and dialstatus was reported and stored
C30_Witness ==
    /\ last.op = "dial"
    /\ last.forward # "" /\ last.dialstatus # ""
    /\ Len(calls) = 1
    /\ calls[1].ev.event_type = AST_CEL_FORWARD
    /\ cel_dialstatus_store # <<>>
    /\ cel_dialstatus_store[Len(cel_dialstatus_store)].forward = last.forward

-----------------------------------------------------------------------------
(* Event records *)

\* C23: the record filled from the event built from a snapshot has the
\* event's type and time, the snapshot's amaflags and each string field of
\* the snapshot in the record field of that name.
C23_Original ==
    (last.op = "fill_record" /\ last.rc = 0) =>
        /\ last.r.event_type = last.event_type
        /\ last.r.event_time = last.eventtime
        /\ last.r.amaflag = last.snapshot.amaflags
        /\ last.r.caller_id_name = last.snapshot.caller_name
        /\ last.r.caller_id_num = last.snapshot.caller_number
        /\ last.r.caller_id_ani = last.snapshot.caller_ani
        /\ last.r.caller_id_rdnis = last.snapshot.caller_rdnis
        /\ last.r.caller_id_dnid = last.snapshot.caller_dnid
        /\ last.r.extension = last.snapshot.exten
        /\ last.r.context = last.snapshot.context
        /\ last.r.channel_name = last.snapshot.name
        /\ last.r.application_name = last.snapshot.appl
        /\ last.r.application_data = last.snapshot.data
        /\ last.r.account_code = last.snapshot.accountcode
        /\ last.r.peer_account = last.snapshot.peeraccount
        /\ last.r.unique_id = last.snapshot.uniqueid
        /\ last.r.linked_id = last.snapshot.linkedid
        /\ last.r.user_field = last.snapshot.userfield

-----------------------------------------------------------------------------
(* Attended transfer *)

\* the last message was the attended transfer of scenario S4, under a
\* configuration that reports ATTENDEDTRANSFER
S4Handled ==
    /\ last.op = "attended_transfer"
    /\ last.xfer.to_transferee.bridge_snapshot = NULL
    /\ last.xfer.to_transfer_target.bridge_snapshot # NULL
    /\ last.xfer.dest_type = "LINK"
    /\ ~last.xfer.to_transfer_target.channel_snapshot.internal
    /\ AST_CEL_ATTENDEDTRANSFER \in cel_configs.events

\* C22: the attended transfer of scenario S4 (to_transferee bridge null,
\* to_transfer_target bridge B2, dest_type LINK) delivers one ATTENDEDTRANSFER
\* event from to_transfer_target's channel with bridge1_id = B2.
C22_Original ==
    S4Handled =>
        /\ Len(calls) = 1
        /\ calls[1].ev.event_type = AST_CEL_ATTENDEDTRANSFER
        /\ calls[1].ev.uniqueid = last.xfer.to_transfer_target.channel_snapshot.uniqueid
        /\ calls[1].ev.extra.bridge1_id = "B2"

-----------------------------------------------------------------------------
(* Linked-id tracker and configuration *)

\* C21: while CEL is disabled or LINKEDID_END is not in the mask, no handler
\* adds an entry or a reference to the linked-id tracker: the tracker is empty.
C21_Original ==
    (cel_configs = NULL \/ ~cel_configs.enable
        \/ AST_CEL_LINKEDID_END \notin cel_configs.events) =>
            DOMAIN linkedids = {}

-----------------------------------------------------------------------------
(* Empty linkedid *)

\* the cache update just handled created a channel that is not internal and
\* whose linkedid is empty, with CEL enabled and LINKEDID_END tracked
EmptyStartCandidate ==
    /\ last'.op = "cache_update"
    /\ last'.old = NULL
    /\ ~last'.new.internal
    /\ last'.new.linkedid = ""
    /\ cel_configs # NULL
    /\ cel_configs.enable
    /\ ast_cel_track_event(cel_configs, AST_CEL_LINKEDID_END)

\* C31: a CHANNEL_START candidate whose snapshot has an empty linkedid, with
\* CEL enabled and LINKEDID_END tracked, is not delivered to any backend and
\* leaves the linked-id tracker, the dial-status store, the backends and the
\* configuration unchanged; only that event is dropped: the APP_START of
\* the same update is still delivered when it is tracked.
C31_EmptyLinkedidAcquire ==
    [][EmptyStartCandidate =>
          /\ \A k \in 1 .. Len(calls') : calls'[k].ev.event_type # AST_CEL_CHANNEL_START
          /\ linkedids' = linkedids
          /\ cel_dialstatus_store' = cel_dialstatus_store
          /\ cel_backends' = cel_backends
          /\ cel_configs' = cel_configs
          /\ (\E k \in 1 .. Len(calls') : calls'[k].ev.event_type = AST_CEL_APP_START)
                <=> /\ last'.new.appl # ""
                    /\ ast_cel_track_event(cel_configs, AST_CEL_APP_START)
                    /\ cel_track_app(cel_configs, last'.new.appl)]_vars

\* a channel with an empty linkedid was created while CHANNEL_START and
\* LINKEDID_END were tracked and the tracker held another channel's linkedid:
\* only the APP_START of the update was delivered
C31_Witness ==
    /\ last.op = "cache_update"
    /\ last.old = NULL
    /\ last.new.linkedid = ""
    /\ cel_configs.enable
    /\ cel_configs.events = AllBits
    /\ DOMAIN linkedids = {"L1"}
    /\ Len(calls) = 1
    /\ calls[1].ev.event_type = AST_CEL_APP_START

-----------------------------------------------------------------------------
(* Linked-id tracker across reloads *)

\* C32: LINKEDID_END for a linkedid L is never delivered while another live
\* channel still carries L, whatever reloads switched enable or the
\* LINKEDID_END bit on and off between the creation and the destruction of
\* the channels.
C32_Original ==
    \A k \in 1 .. Len(calls) :
        calls[k].ev.event_type = AST_CEL_LINKEDID_END
            => Carrying(calls[k].ev.linkedid) = {}

-----------------------------------------------------------------------------
(* Unregister during a fan-out *)

\* the registry holds an entry with the name and callback of invocation c
StillRegistered(c) ==
    \E i \in 1 .. Len(cel_backends) :
        /\ cel_backends[i].name = c.name
        /\ cel_backends[i].callback = c.callback

-----------------------------------------------------------------------------
(* Dial-status store and the configuration *)

\* HANGUP events are delivered under the configuration in effect
HangupReported ==
    /\ cel_configs # NULL
    /\ cel_configs.enable
    /\ ast_cel_track_event(cel_configs, AST_CEL_HANGUP)

\* C34: whatever the configuration, a dial message with a non-empty
\* dialstatus whose caller is not internal is added to the store, and a
\* hangup transition unlinks the oldest entry of the caller when the caller
\* has one and no other entry; HANGUP is delivered only when CEL is enabled
\* and HANGUP is in the mask, so the entry is consumed also when no HANGUP
\* is delivered.
C34_StoreIgnoresConfig ==
    [][/\ (/\ last'.op = "dial"
           /\ "dialstatus" \in DOMAIN last'
           /\ last'.snapshot # NULL
           /\ ~cel_filter_channel_snapshot(last'.snapshot)
           /\ last'.dialstatus # "") =>
              cel_dialstatus_store' =
                  Append(cel_dialstatus_store,
                         [caller |-> last'.snapshot, forward |-> last'.forward,
                          dialstatus |-> last'.dialstatus])
       /\ (last'.op = "cache_update" /\ IsHangup(last'.old, last'.new)) =>
              LET M == Matching(cel_dialstatus_store, last'.new.uniqueid)
              IN  /\ IF M = {}
                     THEN cel_dialstatus_store' = cel_dialstatus_store
                     ELSE \E i \in M :
                              /\ \A j \in M : i <= j
                              /\ cel_dialstatus_store' = RemoveAt(cel_dialstatus_store, i)
                  /\ (\E k \in 1 .. Len(calls') :
                          calls'[k].ev.event_type = AST_CEL_HANGUP) <=> HangupReported]_vars

\* a caller that was dialled hung up while no HANGUP is reported: nothing was
\* delivered and the caller's entry is gone from the store
C34_Witness ==
    /\ last.op = "cache_update"
    /\ IsHangup(last.old, last.new)
    /\ last.dialed # ""
    /\ ~HangupReported
    /\ calls = <<>>
    /\ Matching(cel_dialstatus_store, last.new.uniqueid) = {}
    /\ cel_dialstatus_store # <<>>

=============================================================================
